---- MODULE Spec2Model ----
(***************************************************************************)
(* Transactional order / inventory / check mutations of the restaurant     *)
(* back-office API: place order and replace order contents (orders.js),    *)
(* bulk inventory update (routes/inventory.js) and the check and payment   *)
(* endpoints of server.js.                                                 *)
(*                                                                         *)
(* A request is one invocation of an async handler.  Every `await` of the  *)
(* handler is one action: the statement's effect on the store and the      *)
(* synchronous code up to the next await happen together, as they do on    *)
(* the single JavaScript thread.  Statements of different requests         *)
(* interleave freely.                                                      *)
(*                                                                         *)
(* The persistence gateway (node-postgres over PostgreSQL) is modelled by  *)
(* its contract: statements issued on a checked-out client between BEGIN   *)
(* and COMMIT are invisible to other connections and become visible        *)
(* together at COMMIT; ROLLBACK discards them; pool.query is one           *)
(* auto-committed statement.  Any statement may be rejected by the driver; *)
(* a rejected statement has no effect.  A rejected COMMIT commits nothing. *)
(* A rejected ROLLBACK means the connection is lost, and the server then   *)
(* discards the transaction of that connection.                            *)
(***************************************************************************)
EXTENDS Integers, Sequences, FiniteSets, TLC

\* ---------------------------------------------------------------- bounds
NumRequests == 2
PoolSize == 2
MaxItems == 2

Requests == 1..NumRequests
Conns == 1..PoolSize
NoClient == 0

\* ---------------------------------------------------------------- values
Users == {"u1", "u2"}
\* order lines a request body may carry: {menu_id, quantity, price}
ItemValues == { [menu_id |-> 10, quantity |-> 2, price |-> 5],
                [menu_id |-> 11, quantity |-> 1, price |-> 3] }
TotalPrices == {13}
PaymentValues == { [present |-> FALSE, amount |-> 0, method |-> "none"],
                   [present |-> TRUE, amount |-> 13, method |-> "Card"] }

SeqsUpTo(S, n) == UNION { [1..m -> S] : m \in 0..n }

\* req.body of POST /orders and PUT /orders/:id.  iterable = FALSE is a body
\* whose items field is missing: `for (const item of items)` throws TypeError.
OrderBodies ==
    { [iterable |-> TRUE, items |-> its, total_price |-> t, payment |-> p] :
        its \in SeqsUpTo(ItemValues, MaxItems), t \in TotalPrices, p \in PaymentValues }
    \cup
    { [iterable |-> FALSE, items |-> << >>, total_price |-> 0, payment |-> p] :
        p \in {[present |-> FALSE, amount |-> 0, method |-> "none"]} }

RECURSIVE SumLines(_)
\* sum of quantity x price over a sequence of order lines
SumLines(s) ==
    IF s = << >> THEN 0
    ELSE s[1].quantity * s[1].price + SumLines(Tail(s))


\* JavaScript values of a bulk-update item field: typeof is "number" or not
Num(n) == [type |-> "number", v |-> n]
Str == [type |-> "string", v |-> 0]

\* {id, quantity} pairs a bulk-update body may carry; row 3 does not exist
InvItemValues == { [id |-> Num(1), quantity |-> Num(7)],
                   [id |-> Num(2), quantity |-> Num(8)],
                   [id |-> Num(3), quantity |-> Num(9)],
                   [id |-> Num(2), quantity |-> Str] }

\* req.body of POST /inventory/bulk-update; isArray = FALSE: items is no array
BulkBodies ==
    { [isArray |-> TRUE, items |-> its] : its \in SeqsUpTo(InvItemValues, MaxItems) }
    \cup { [isArray |-> FALSE, items |-> << >>] }

NoBody == [none |-> TRUE]

\* ----------------------------------------------------------------- state
VARIABLES
    db,           \* committed tables: orders, order_items (with the inserting
                  \* transaction of each row), payments, inventory
    nextOrderId,  \* the orders id sequence
    tx,           \* per connection: transaction state and its pending statements
    idle,         \* connections checked in to the pool
    pc,           \* per request: the await the handler is suspended at
    op,           \* per request: which route handles it
    uid,          \* per request: req.user.uid
    authorization,\* per request: req.headers.authorization
    params_id,    \* per request: req.params.id
    body,         \* per request: req.body
    client,       \* per request: the connection returned by pool.connect()
    k,            \* per request: index of the loop over items
    order,        \* per request: orderResult.rows[0].id
    found,        \* per request: check.rowCount > 0
    status,       \* per request: HTTP status of the response sent, 0 = none yet
    err,          \* per request: the exception the catch clause caught
    unhandled,    \* per request: the handler's promise rejected
    checks,       \* checks table: id -> status
    item_check,   \* order_items.check_id: line id -> check id
    nextCheckId,  \* the checks id sequence
    newCheckId,   \* per request: newCheck.rows[0].id
    inflight,     \* per request: line ids whose UPDATE was issued and not completed
    cpayments,    \* payments rows of checks: <<check_id, method>>
    result,       \* per request: rows[0] of the handler's SELECT
    order_cols,   \* orders columns written outside a transaction: id -> status,
                  \* priority_level, assigned_chef_id, modifiers
    gift_cards,   \* gift_cards table: card_number -> balance
    loyalty_program, \* loyalty_program table: user_id -> points
    tables,       \* tables table: id -> status
    reservations  \* reservations rows: status, table_number

reqvars == <<pc, op, uid, authorization, result, params_id, body, client, k, order,
             found, status, err, unhandled>>
txvars == <<db, nextOrderId, tx, idle>>
storevars == <<order_cols, gift_cards, loyalty_program, tables, reservations>>
checkvars == <<checks, item_check, nextCheckId, newCheckId, inflight, cpayments>>
vars == <<db, nextOrderId, tx, idle, pc, op, uid, authorization, result, storevars,
          params_id, body, client, k, order, found, status, err, unhandled, checks,
          item_check, nextCheckId, newCheckId, inflight, cpayments>>

\* ------------------------------------------------- the persistence gateway
\* tx[c].state: "none" outside a transaction, "open" between BEGIN and its end,
\* "lost" once the connection is gone (every later statement is rejected)
NoTx == [state |-> "none", log |-> << >>]
LostTx == [state |-> "lost", log |-> << >>]

\* INSERT INTO orders (user_id, restaurant_id, total_price, created_at)
InsertOrder(d, id, u, total) ==
    [d EXCEPT !.orders = (id :> [user_id |-> u, total_price |-> total]) @@ @,
              !.order_items = (id :> << >>) @@ @,
              !.order_items_xmin = (id :> << >>) @@ @]

\* INSERT INTO order_items (order_id, menu_id, quantity, price) by transaction
\* xid: the store keeps with each row the transaction that inserted it
InsertOrderItem(d, id, row, xid) ==
    IF id \in DOMAIN d.order_items
    THEN [d EXCEPT !.order_items[id] = Append(@, row),
                   !.order_items_xmin[id] = Append(@, xid)]
    ELSE d

RECURSIVE Surviving(_, _, _)
\* the rows that a DELETE which saw the rows of the transactions in seen leaves
Surviving(rows, xmins, seen) ==
    IF rows = << >> THEN << >>
    ELSE (IF Head(xmins) \in seen THEN << >> ELSE << Head(rows) >>)
            \o Surviving(Tail(rows), Tail(xmins), seen)

\* DELETE FROM order_items WHERE order_id = $1: at read committed the
\* statement removes the rows it saw when it ran -- the rows committed by then
\* and the rows of its own transaction; a row another transaction commits
\* later is not removed
DeleteOrderItems(d, id, seen) ==
    IF id \in DOMAIN d.order_items
    THEN [d EXCEPT !.order_items[id] = Surviving(@, d.order_items_xmin[id], seen),
                   !.order_items_xmin[id] = Surviving(@, @, seen)]
    ELSE d

\* UPDATE orders SET total_price = $1, updated_at = NOW() WHERE id = $2
UpdateOrderTotal(d, id, total) ==
    IF id \in DOMAIN d.orders
    THEN [d EXCEPT !.orders[id].total_price = total]
    ELSE d

\* INSERT INTO payments (order_id, amount, method)
InsertPayment(d, row) == [d EXCEPT !.payments = Append(@, row)]

\* the UPDATE without its WHERE clause: every row gets the quantity
UpdateInventory_NoWhere(d, id, q) ==
    [d EXCEPT !.inventory = [i \in DOMAIN d.inventory |-> q]]

\* UPDATE inventory SET quantity = $1 WHERE id = $2
UpdateInventory(d, id, q) ==
    IF id \in DOMAIN d.inventory
    THEN [d EXCEPT !.inventory[id] = q]
    ELSE d

\* effect of one pending statement on the tables
ApplyOp(d, o) ==
    CASE o.op = "ins_order" -> InsertOrder(d, o.id, o.user_id, o.total_price)
      [] o.op = "ins_item" -> InsertOrderItem(d, o.id, o.row, o.xid)
      [] o.op = "del_items" -> DeleteOrderItems(d, o.id, o.seen)
      [] o.op = "upd_order" -> UpdateOrderTotal(d, o.id, o.total_price)
      [] o.op = "ins_payment" -> InsertPayment(d, o.row)
      [] o.op = "upd_inv" -> UpdateInventory(d, o.id, o.quantity)

RECURSIVE ApplyLog(_, _)
\* the tables after the pending statements of a transaction, in order
ApplyLog(d, log) ==
    IF log = << >> THEN d ELSE ApplyLog(ApplyOp(d, Head(log)), Tail(log))

\* what a statement on connection c reads: committed rows and its own writes
View(c) == ApplyLog(db, tx[c].log)

\* the transactions whose lines of order id a statement on connection c sees
SeenXids(c, id) ==
    IF id \in DOMAIN View(c).order_items_xmin
    THEN { View(c).order_items_xmin[id][i] :
             i \in 1..Len(View(c).order_items_xmin[id]) }
    ELSE {}

\* client.query('BEGIN')
TxBegin(c) == [tx EXCEPT ![c] = [state |-> "open", log |-> << >>]]
\* client.query(<INSERT | UPDATE | DELETE>): pending until COMMIT; outside a
\* transaction the statement is committed at once
TxWrite(c, o) == [tx EXCEPT ![c].log = IF tx[c].state = "open" THEN Append(@, o) ELSE @]

\* the statement sent through pool.query instead of the client: committed at once
DbWrite_Autocommit(c, o) == ApplyOp(db, o)
DbWrite(c, o) == IF tx[c].state = "open" THEN db ELSE ApplyOp(db, o)
\* client.query('COMMIT')
TxCommitDb(c) == ApplyLog(db, tx[c].log)
\* client.query('ROLLBACK') or a rejected COMMIT
TxEnd(c) == [tx EXCEPT ![c] = IF @.state = "lost" THEN @ ELSE NoTx]
\* a rejected ROLLBACK: the connection is lost and the server drops its transaction
TxLost(c) == [tx EXCEPT ![c] = LostTx]
\* the driver can complete a statement only on a live connection
Alive(c) == tx[c].state # "lost"

\* ------------------------------------------------------------------ Init
InitDb ==
    [ orders |-> (1 :> [user_id |-> "u1", total_price |-> 10]),
      order_items |-> (1 :> << [menu_id |-> 10, quantity |-> 2, price |-> 5] >>),
      order_items_xmin |-> (1 :> << 0 >>),
      payments |-> << >>,
      inventory |-> (1 :> 5) @@ (2 :> 5) ]

\* tip_amount 0 and closed_at 0 stand for NULL
InitChecks == (1 :> [status |-> "Open", tip_amount |-> 0, closed_at |-> 0])

\* rows[0] of a SELECT that returned no row, or of no SELECT yet
NoRow == 0 - 1
\* the columns of order 1 that the single-statement order routes write
InitOrderCols ==
    (1 :> [status |-> "Pending", priority_level |-> "Low", assigned_chef_id |-> 0,
           modifiers |-> "null"])
InitGiftCards == ("G1" :> 10)
InitLoyaltyProgram == ("u1" :> 10)
InitTables == (1 :> "Available") @@ (2 :> "Occupied")
InitItemCheck == (7 :> 1) @@ (8 :> 1) @@ (9 :> 1)

Init ==
    /\ db = InitDb
    /\ nextOrderId = 2
    /\ tx = [c \in Conns |-> NoTx]
    /\ idle = Conns
    /\ pc = [r \in Requests |-> "idle"]
    /\ op = [r \in Requests |-> "none"]
    /\ uid = [r \in Requests |-> "u1"]
    /\ authorization = [r \in Requests |-> "Bearer good"]
    /\ params_id = [r \in Requests |-> 0]
    /\ body = [r \in Requests |-> NoBody]
    /\ client = [r \in Requests |-> NoClient]
    /\ k = [r \in Requests |-> 0]
    /\ order = [r \in Requests |-> 0]
    /\ found = [r \in Requests |-> FALSE]
    /\ status = [r \in Requests |-> 0]
    /\ err = [r \in Requests |-> "none"]
    /\ unhandled = [r \in Requests |-> FALSE]
    /\ checks = InitChecks
    /\ item_check = InitItemCheck
    /\ nextCheckId = 2
    /\ newCheckId = [r \in Requests |-> 0]
    /\ inflight = [r \in Requests |-> {}]
    /\ cpayments = {}
    /\ result = [r \in Requests |-> NoRow]
    /\ order_cols = InitOrderCols
    /\ gift_cards = InitGiftCards
    /\ loyalty_program = InitLoyaltyProgram
    /\ tables = InitTables
    /\ reservations = << >>


\* ------------------------------------------------------- handler helpers
Set(f, r, v) == [f EXCEPT ![r] = v]

\* finally { client.release() }: the connection goes back to the pool; the pool
\* replaces a lost connection by a fresh one
Release(r) ==
    /\ idle' = idle \cup {client[r]}
    /\ pc' = Set(pc, r, "done")

ReleasedTx(t, c) == [t EXCEPT ![c] = IF @.state = "lost" THEN NoTx ELSE @]

\* a statement on the client is rejected inside the try block: control
\* passes to the catch clause, whose first statement is ROLLBACK
Throw(r, stmt, e) ==
    /\ pc' = Set(pc, r, "rollback")
    /\ err' = Set(err, r, e)

\* --------------------------------------- pool.connect()  (all three routes)
PoolConnect(r) ==
    /\ pc[r] = "connect"
    /\ \/ \E c \in idle :
            /\ \A d \in idle : c <= d
            /\ idle' = idle \ {c}
            /\ client' = Set(client, r, c)
            /\ pc' = Set(pc, r, "begin")
            /\ UNCHANGED unhandled
       \/ \* pool.connect() rejects outside the try block: nothing catches it
          /\ unhandled' = Set(unhandled, r, TRUE)
          /\ pc' = Set(pc, r, "done")
          /\ UNCHANGED <<idle, client>>
    /\ UNCHANGED <<db, nextOrderId, tx, op, uid, authorization, result, storevars, params_id, body, k, order, found,
                   status, err>>
    /\ UNCHANGED checkvars

\* ------------------------------------------ POST /orders  (place new order)
PlaceOrder_Receive(r) ==
    /\ pc[r] = "idle"
    /\ \E u \in Users, b \in OrderBodies :
         /\ uid' = Set(uid, r, u)
         /\ body' = Set(body, r, b)
    /\ op' = Set(op, r, "place")
    /\ pc' = Set(pc, r, "connect")
    /\ UNCHANGED <<db, nextOrderId, tx, idle, authorization, result, storevars, params_id, client, k,
                   order, found, status, err, unhandled>>
    /\ UNCHANGED checkvars

\* the loop over items stopping one line early
PlaceOrder_After_OffByOne(b, i) ==
    IF ~b.iterable THEN "throw"
    ELSE IF i + 1 < Len(b.items) THEN "insert_item"
    ELSE IF b.payment.present THEN "insert_payment"
    ELSE "commit"

\* where POST /orders continues after the order row and the lines up to index i
PlaceOrder_After(b, i) ==
    IF ~b.iterable THEN "throw"
    ELSE IF i < Len(b.items) THEN "insert_item"
    ELSE IF b.payment.present THEN "insert_payment"
    ELSE "commit"

PlaceOrder_Begin(r) ==
    /\ pc[r] = "begin" /\ op[r] = "place"
    /\ \/ /\ Alive(client[r])
          /\ tx' = TxBegin(client[r])
          /\ pc' = Set(pc, r, "insert_order")
          /\ UNCHANGED err
       \/ /\ Throw(r, "BEGIN", "driver")
          /\ UNCHANGED tx
    /\ UNCHANGED <<db, nextOrderId, idle, op, uid, authorization, result, storevars, params_id, body, client, k, order,
                   found, status, unhandled>>
    /\ UNCHANGED checkvars

PlaceOrder_InsertOrder(r) ==
    /\ pc[r] = "insert_order" /\ op[r] = "place"
    /\ \/ /\ Alive(client[r])
          /\ LET o == [op |-> "ins_order", id |-> nextOrderId, user_id |-> uid[r],
                       total_price |-> body[r].total_price]
                 next == PlaceOrder_After(body[r], 0)
             IN /\ tx' = TxWrite(client[r], o)
                /\ db' = DbWrite(client[r], o)
                /\ order' = Set(order, r, nextOrderId)
                /\ nextOrderId' = nextOrderId + 1
                /\ IF next = "throw"
                   THEN /\ pc' = Set(pc, r, "rollback")
                        /\ err' = Set(err, r, "TypeError")
                        /\ UNCHANGED k
                   ELSE /\ pc' = Set(pc, r, next)
                        /\ k' = Set(k, r, 1)
                        /\ UNCHANGED err
       \/ /\ Throw(r, "INSERT orders", "driver")
          /\ UNCHANGED <<tx, db, order, nextOrderId, k>>
    /\ UNCHANGED <<idle, op, uid, authorization, result, storevars, params_id, body, client, found, status, unhandled>>
    /\ UNCHANGED checkvars

PlaceOrder_InsertItem(r) ==
    /\ pc[r] = "insert_item" /\ op[r] = "place"
    /\ \/ /\ Alive(client[r])
          /\ LET o == [op |-> "ins_item", id |-> order[r], row |-> body[r].items[k[r]],
                       xid |-> r]
             IN /\ tx' = TxWrite(client[r], o)
                /\ db' = DbWrite(client[r], o)
          /\ pc' = Set(pc, r, PlaceOrder_After(body[r], k[r]))
          /\ k' = Set(k, r, k[r] + 1)
          /\ UNCHANGED err
       \/ /\ Throw(r, "INSERT order_items", "driver")
          /\ UNCHANGED <<tx, db, k>>
    /\ UNCHANGED <<nextOrderId, idle, op, uid, authorization, result, storevars, params_id, body, client, order, found,
                   status, unhandled>>
    /\ UNCHANGED checkvars

PlaceOrder_InsertPayment(r) ==
    /\ pc[r] = "insert_payment" /\ op[r] = "place"
    /\ \/ /\ Alive(client[r])
          /\ LET o == [op |-> "ins_payment",
                       row |-> [order_id |-> order[r],
                                amount |-> body[r].payment.amount,
                                method |-> body[r].payment.method]]
             IN /\ tx' = TxWrite(client[r], o)
                /\ db' = DbWrite(client[r], o)
          /\ pc' = Set(pc, r, "commit")
          /\ UNCHANGED err
       \/ /\ Throw(r, "INSERT payments", "driver")
          /\ UNCHANGED <<tx, db>>
    /\ UNCHANGED <<nextOrderId, idle, op, uid, authorization, result, storevars, params_id, body, client, k, order, found,
                   status, unhandled>>
    /\ UNCHANGED checkvars

\* the 201 response sent before COMMIT has completed
PlaceOrder_Commit_RespondsFirst(r) ==
    /\ pc[r] = "commit" /\ op[r] = "place"
    /\ \/ /\ Alive(client[r])
          /\ db' = TxCommitDb(client[r])
          /\ tx' = TxEnd(client[r])
          /\ status' = Set(status, r, 201)
          /\ Release(r)
          /\ UNCHANGED err
       \/ /\ Throw(r, "COMMIT", "driver")
          /\ tx' = TxEnd(client[r])
          /\ status' = Set(status, r, 201)
          /\ UNCHANGED <<db, idle>>
    /\ UNCHANGED <<nextOrderId, op, uid, authorization, result, storevars, params_id,
                   body, client, k, order, found, unhandled>>
    /\ UNCHANGED checkvars

\* await client.query('COMMIT'); res.status(201).json(...)
PlaceOrder_Commit(r) ==
    /\ pc[r] = "commit" /\ op[r] = "place"
    /\ \/ /\ Alive(client[r])
          /\ db' = TxCommitDb(client[r])
          /\ tx' = TxEnd(client[r])
          /\ status' = Set(status, r, 201)
          /\ Release(r)
          /\ UNCHANGED err
       \/ /\ Throw(r, "COMMIT", "driver")
          /\ tx' = TxEnd(client[r])
          /\ UNCHANGED <<db, status, idle>>
    /\ UNCHANGED <<nextOrderId, op, uid, authorization, result, storevars, params_id, body, client, k, order, found,
                   unhandled>>
    /\ UNCHANGED checkvars

\* catch (err) { await client.query('ROLLBACK'); res.status(500)... } finally
PlaceOrder_Rollback(r) ==
    /\ pc[r] = "rollback" /\ op[r] = "place"
    /\ \/ /\ Alive(client[r])
          /\ tx' = ReleasedTx(TxEnd(client[r]), client[r])
          /\ status' = Set(status, r, 500)
          /\ UNCHANGED unhandled
       \/ /\ tx' = ReleasedTx(TxLost(client[r]), client[r])
          /\ unhandled' = Set(unhandled, r, TRUE)
          /\ UNCHANGED status
    /\ Release(r)
    /\ UNCHANGED <<db, nextOrderId, op, uid, authorization, result, storevars, params_id, body, client, k, order, found,
                   err>>
    /\ UNCHANGED checkvars


\* ------------------------------- PUT /orders/:id  (replace order contents)
OrderIds == {1, 2}

ReplaceOrder_Receive(r) ==
    /\ pc[r] = "idle"
    /\ \E u \in Users, b \in OrderBodies, id \in OrderIds :
         /\ ~b.payment.present
         /\ uid' = Set(uid, r, u)
         /\ body' = Set(body, r, b)
         /\ params_id' = Set(params_id, r, id)
    /\ op' = Set(op, r, "replace")
    /\ pc' = Set(pc, r, "connect")
    /\ UNCHANGED <<db, nextOrderId, tx, idle, authorization, result, storevars, client, k, order, found,
                   status, err, unhandled>>
    /\ UNCHANGED checkvars

ReplaceOrder_Begin(r) ==
    /\ pc[r] = "begin" /\ op[r] = "replace"
    /\ \/ /\ Alive(client[r])
          /\ tx' = TxBegin(client[r])
          /\ pc' = Set(pc, r, "select")
          /\ UNCHANGED err
       \/ /\ Throw(r, "BEGIN", "driver")
          /\ UNCHANGED tx
    /\ UNCHANGED <<db, nextOrderId, idle, op, uid, authorization, result, storevars, params_id, body, client, k, order,
                   found, status, unhandled>>
    /\ UNCHANGED checkvars

\* the SELECT without its user_id condition
RowCount_AnyOwner(d, id, u) == IF id \in DOMAIN d.orders THEN 1 ELSE 0

\* SELECT * FROM orders WHERE id = $1 AND user_id = $2: check.rowCount
RowCount(d, id, u) ==
    IF id \in DOMAIN d.orders /\ d.orders[id].user_id = u THEN 1 ELSE 0

\* the not-found branch answering 404 without ROLLBACK
ReplaceOrder_Select_NoRollback(r) ==
    /\ pc[r] = "select" /\ op[r] = "replace"
    /\ \/ /\ Alive(client[r])
          /\ LET n == RowCount(View(client[r]), params_id[r], uid[r])
             IN /\ found' = Set(found, r, n # 0)
                /\ IF n = 0
                   THEN status' = Set(status, r, 404) /\ Release(r)
                   ELSE pc' = Set(pc, r, "delete") /\ UNCHANGED <<status, idle>>
          /\ UNCHANGED err
       \/ /\ Throw(r, "SELECT orders", "driver")
          /\ UNCHANGED <<found, status, idle>>
    /\ UNCHANGED <<db, nextOrderId, tx, op, uid, authorization, result, storevars, params_id, body, client,
                   k, order, unhandled>>
    /\ UNCHANGED checkvars

\* const check = await client.query('SELECT * FROM orders WHERE id = $1 AND user_id = $2')
ReplaceOrder_Select(r) ==
    /\ pc[r] = "select" /\ op[r] = "replace"
    /\ \/ /\ Alive(client[r])
          /\ LET n == RowCount(View(client[r]), params_id[r], uid[r])
             IN /\ found' = Set(found, r, n # 0)
                /\ pc' = Set(pc, r, IF n = 0 THEN "rollback_404" ELSE "delete")
          /\ UNCHANGED err
       \/ /\ Throw(r, "SELECT orders", "driver")
          /\ UNCHANGED found
    /\ UNCHANGED <<db, nextOrderId, tx, idle, op, uid, authorization, result, storevars, params_id, body, client, k, order,
                   status, unhandled>>
    /\ UNCHANGED checkvars

\* the not-found branch returning without client.release()
ReplaceOrder_RollbackNotFound_NoRelease(r) ==
    /\ pc[r] = "rollback_404" /\ op[r] = "replace"
    /\ \/ /\ Alive(client[r])
          /\ tx' = TxEnd(client[r])
          /\ status' = Set(status, r, 404)
          /\ pc' = Set(pc, r, "done")
          /\ UNCHANGED <<err, idle>>
       \/ /\ Throw(r, "ROLLBACK", "driver")
          /\ tx' = TxLost(client[r])
          /\ UNCHANGED <<status, idle>>
    /\ UNCHANGED <<db, nextOrderId, op, uid, authorization, result, storevars, params_id, body, client, k, order, found,
                   unhandled>>
    /\ UNCHANGED checkvars

\* if (check.rowCount === 0) { await client.query('ROLLBACK'); return 404 }
ReplaceOrder_RollbackNotFound(r) ==
    /\ pc[r] = "rollback_404" /\ op[r] = "replace"
    /\ \/ /\ Alive(client[r])
          /\ tx' = TxEnd(client[r])
          /\ status' = Set(status, r, 404)
          /\ Release(r)
          /\ UNCHANGED err
       \/ /\ Throw(r, "ROLLBACK", "driver")
          /\ tx' = TxLost(client[r])
          /\ UNCHANGED <<status, idle>>
    /\ UNCHANGED <<db, nextOrderId, op, uid, authorization, result, storevars, params_id, body, client, k, order, found,
                   unhandled>>
    /\ UNCHANGED checkvars

\* where PUT /orders/:id continues after the DELETE and the lines up to index i
ReplaceOrder_After(b, i) ==
    IF ~b.iterable THEN "throw"
    ELSE IF i < Len(b.items) THEN "insert_item"
    ELSE "update"

\* the DELETE sent through pool.query: committed at once, outside the transaction
ReplaceOrder_Delete_ViaPool(r) ==
    /\ pc[r] = "delete" /\ op[r] = "replace"
    /\ \/ /\ Alive(client[r])
          /\ LET o == [op |-> "del_items", id |-> params_id[r],
                       seen |-> SeenXids(client[r], params_id[r])]
                 next == ReplaceOrder_After(body[r], 0)
             IN /\ tx' = tx
                /\ db' = ApplyOp(db, o)
                /\ IF next = "throw"
                   THEN /\ pc' = Set(pc, r, "rollback")
                        /\ err' = Set(err, r, "TypeError")
                        /\ UNCHANGED k
                   ELSE /\ pc' = Set(pc, r, next)
                        /\ k' = Set(k, r, 1)
                        /\ UNCHANGED err
       \/ /\ Throw(r, "DELETE order_items", "driver")
          /\ UNCHANGED <<tx, db, k>>
    /\ UNCHANGED <<nextOrderId, idle, op, uid, authorization, result, storevars, params_id, body, client, order, found,
                   status, unhandled>>
    /\ UNCHANGED checkvars

\* await client.query('DELETE FROM order_items WHERE order_id = $1', [req.params.id])
ReplaceOrder_Delete(r) ==
    /\ pc[r] = "delete" /\ op[r] = "replace"
    /\ \/ /\ Alive(client[r])
          /\ LET o == [op |-> "del_items", id |-> params_id[r],
                       seen |-> SeenXids(client[r], params_id[r])]
                 next == ReplaceOrder_After(body[r], 0)
             IN /\ tx' = TxWrite(client[r], o)
                /\ db' = DbWrite(client[r], o)
                /\ IF next = "throw"
                   THEN /\ pc' = Set(pc, r, "rollback")
                        /\ err' = Set(err, r, "TypeError")
                        /\ UNCHANGED k
                   ELSE /\ pc' = Set(pc, r, next)
                        /\ k' = Set(k, r, 1)
                        /\ UNCHANGED err
       \/ /\ Throw(r, "DELETE order_items", "driver")
          /\ UNCHANGED <<tx, db, k>>
    /\ UNCHANGED <<nextOrderId, idle, op, uid, authorization, result, storevars, params_id, body, client, order, found,
                   status, unhandled>>
    /\ UNCHANGED checkvars

ReplaceOrder_InsertItem(r) ==
    /\ pc[r] = "insert_item" /\ op[r] = "replace"
    /\ \/ /\ Alive(client[r])
          /\ LET o == [op |-> "ins_item", id |-> params_id[r],
                       row |-> body[r].items[k[r]], xid |-> r]
             IN /\ tx' = TxWrite(client[r], o)
                /\ db' = DbWrite(client[r], o)
          /\ pc' = Set(pc, r, ReplaceOrder_After(body[r], k[r]))
          /\ k' = Set(k, r, k[r] + 1)
          /\ UNCHANGED err
       \/ /\ Throw(r, "INSERT order_items", "driver")
          /\ UNCHANGED <<tx, db, k>>
    /\ UNCHANGED <<nextOrderId, idle, op, uid, authorization, result, storevars, params_id, body, client, order, found,
                   status, unhandled>>
    /\ UNCHANGED checkvars

ReplaceOrder_Update(r) ==
    /\ pc[r] = "update" /\ op[r] = "replace"
    /\ \/ /\ Alive(client[r])
          /\ LET o == [op |-> "upd_order", id |-> params_id[r],
                       total_price |-> body[r].total_price]
             IN /\ tx' = TxWrite(client[r], o)
                /\ db' = DbWrite(client[r], o)
          /\ pc' = Set(pc, r, "commit")
          /\ UNCHANGED err
       \/ /\ Throw(r, "UPDATE orders", "driver")
          /\ UNCHANGED <<tx, db>>
    /\ UNCHANGED <<nextOrderId, idle, op, uid, authorization, result, storevars, params_id, body, client, k, order, found,
                   status, unhandled>>
    /\ UNCHANGED checkvars

ReplaceOrder_Commit(r) ==
    /\ pc[r] = "commit" /\ op[r] = "replace"
    /\ \/ /\ Alive(client[r])
          /\ db' = TxCommitDb(client[r])
          /\ tx' = TxEnd(client[r])
          /\ status' = Set(status, r, 200)
          /\ Release(r)
          /\ UNCHANGED err
       \/ /\ Throw(r, "COMMIT", "driver")
          /\ tx' = TxEnd(client[r])
          /\ UNCHANGED <<db, status, idle>>
    /\ UNCHANGED <<nextOrderId, op, uid, authorization, result, storevars, params_id, body, client, k, order, found,
                   unhandled>>
    /\ UNCHANGED checkvars

ReplaceOrder_Rollback(r) ==
    /\ pc[r] = "rollback" /\ op[r] = "replace"
    /\ \/ /\ Alive(client[r])
          /\ tx' = ReleasedTx(TxEnd(client[r]), client[r])
          /\ status' = Set(status, r, 500)
          /\ UNCHANGED unhandled
       \/ /\ tx' = ReleasedTx(TxLost(client[r]), client[r])
          /\ unhandled' = Set(unhandled, r, TRUE)
          /\ UNCHANGED status
    /\ Release(r)
    /\ UNCHANGED <<db, nextOrderId, op, uid, authorization, result, storevars, params_id, body, client, k, order, found,
                   err>>
    /\ UNCHANGED checkvars

\* ------------------------------------------- POST /inventory/bulk-update
\* typeof item.id !== 'number' || typeof item.quantity !== 'number'
ItemInvalid(item) == item.id.type # "number" \/ item.quantity.type # "number"

\* where the loop continues before the item at index i: validate it, then UPDATE
BulkUpdate_At(b, i) ==
    IF i > Len(b.items) THEN "commit"
    ELSE IF ItemInvalid(b.items[i]) THEN "rollback_400"
    ELSE "update"

BulkUpdate_Receive(r) ==
    /\ pc[r] = "idle"
    /\ op' = Set(op, r, "bulk")
    /\ \E b \in BulkBodies :
         /\ body' = Set(body, r, b)
         /\ IF ~b.isArray \/ Len(b.items) = 0
            THEN /\ status' = Set(status, r, 400)
                 /\ pc' = Set(pc, r, "done")
            ELSE /\ pc' = Set(pc, r, "connect")
                 /\ UNCHANGED status
    /\ UNCHANGED <<db, nextOrderId, tx, idle, uid, authorization, result, storevars, params_id, client, k, order, found,
                   err, unhandled>>
    /\ UNCHANGED checkvars

BulkUpdate_Begin(r) ==
    /\ pc[r] = "begin" /\ op[r] = "bulk"
    /\ \/ /\ Alive(client[r])
          /\ tx' = TxBegin(client[r])
          /\ pc' = Set(pc, r, BulkUpdate_At(body[r], 1))
          /\ k' = Set(k, r, 1)
          /\ UNCHANGED err
       \/ /\ Throw(r, "BEGIN", "driver")
          /\ UNCHANGED <<tx, k>>
    /\ UNCHANGED <<db, nextOrderId, idle, op, uid, authorization, result, storevars, params_id, body, client, order,
                   found, status, unhandled>>
    /\ UNCHANGED checkvars

BulkUpdate_Update(r) ==
    /\ pc[r] = "update" /\ op[r] = "bulk"
    /\ \/ /\ Alive(client[r])
          /\ LET item == body[r].items[k[r]]
                 o == [op |-> "upd_inv", id |-> item.id.v, quantity |-> item.quantity.v]
             IN /\ tx' = TxWrite(client[r], o)
                /\ db' = DbWrite(client[r], o)
          /\ pc' = Set(pc, r, BulkUpdate_At(body[r], k[r] + 1))
          /\ k' = Set(k, r, k[r] + 1)
          /\ UNCHANGED err
       \/ /\ Throw(r, "UPDATE inventory", "driver")
          /\ UNCHANGED <<tx, db, k>>
    /\ UNCHANGED <<nextOrderId, idle, op, uid, authorization, result, storevars, params_id, body, client, order, found,
                   status, unhandled>>
    /\ UNCHANGED checkvars

\* the invalid-item branch with COMMIT in place of ROLLBACK
BulkUpdate_RollbackInvalid_Commits(r) ==
    /\ pc[r] = "rollback_400" /\ op[r] = "bulk"
    /\ db' = TxCommitDb(client[r])
    /\ tx' = TxEnd(client[r])
    /\ status' = Set(status, r, 400)
    /\ Release(r)
    /\ UNCHANGED <<nextOrderId, op, uid, authorization, result, storevars, params_id, body, client, k, order, found,
                   err, unhandled>>
    /\ UNCHANGED checkvars

\* invalid item: await client.query('ROLLBACK'); return res.status(400)
BulkUpdate_RollbackInvalid(r) ==
    /\ pc[r] = "rollback_400" /\ op[r] = "bulk"
    /\ \/ /\ Alive(client[r])
          /\ tx' = TxEnd(client[r])
          /\ status' = Set(status, r, 400)
          /\ Release(r)
          /\ UNCHANGED err
       \/ /\ Throw(r, "ROLLBACK", "driver")
          /\ tx' = TxLost(client[r])
          /\ UNCHANGED <<status, idle>>
    /\ UNCHANGED <<db, nextOrderId, op, uid, authorization, result, storevars, params_id, body, client, k, order, found,
                   unhandled>>
    /\ UNCHANGED checkvars

\* COMMIT rejected: the connection is released before the catch clause's
\* ROLLBACK runs on it, and again in finally
BulkUpdate_Commit_ReleasesInCatch(r) ==
    /\ pc[r] = "commit" /\ op[r] = "bulk"
    /\ \/ /\ Alive(client[r])
          /\ db' = TxCommitDb(client[r])
          /\ tx' = TxEnd(client[r])
          /\ status' = Set(status, r, 200)
          /\ Release(r)
          /\ UNCHANGED err
       \/ /\ Throw(r, "COMMIT", "driver")
          /\ tx' = TxEnd(client[r])
          /\ idle' = idle \cup {client[r]}
          /\ UNCHANGED <<db, status>>
    /\ UNCHANGED <<nextOrderId, op, uid, authorization, result, storevars, params_id, body, client, k, order, found,
                   unhandled>>
    /\ UNCHANGED checkvars

BulkUpdate_Commit(r) ==
    /\ pc[r] = "commit" /\ op[r] = "bulk"
    /\ \/ /\ Alive(client[r])
          /\ db' = TxCommitDb(client[r])
          /\ tx' = TxEnd(client[r])
          /\ status' = Set(status, r, 200)
          /\ Release(r)
          /\ UNCHANGED err
       \/ /\ Throw(r, "COMMIT", "driver")
          /\ tx' = TxEnd(client[r])
          /\ UNCHANGED <<db, status, idle>>
    /\ UNCHANGED <<nextOrderId, op, uid, authorization, result, storevars, params_id, body, client, k, order, found,
                   unhandled>>
    /\ UNCHANGED checkvars

BulkUpdate_Rollback(r) ==
    /\ pc[r] = "rollback" /\ op[r] = "bulk"
    /\ \/ /\ Alive(client[r])
          /\ tx' = ReleasedTx(TxEnd(client[r]), client[r])
          /\ status' = Set(status, r, 500)
          /\ UNCHANGED unhandled
       \/ /\ tx' = ReleasedTx(TxLost(client[r]), client[r])
          /\ unhandled' = Set(unhandled, r, TRUE)
          /\ UNCHANGED status
    /\ Release(r)
    /\ UNCHANGED <<db, nextOrderId, op, uid, authorization, result, storevars, params_id, body, client, k, order, found,
                   err>>
    /\ UNCHANGED checkvars

\* ------------------------------------------------ checks and payments
\* every statement of these routes goes through pool.query: it is committed
\* on its own, and nothing undoes it when a later statement fails
CheckIds == {1, 2}
LineIds == {7, 8, 9}
\* item_ids / items_to_split of a split request: line ids, none twice; line 5
\* has no row
SplitLists ==
    { l \in SeqsUpTo(LineIds \cup {5}, MaxItems) :
        \A i, j \in 1..Len(l) : i # j => l[i] # l[j] }

\* status of a row inserted by INSERT INTO checks (created_at): the column default
DefaultCheckStatus == "Open"

\* UPDATE order_items SET check_id = $1 WHERE id = $2
MoveLine(ic, id, c) == IF id \in DOMAIN ic THEN [ic EXCEPT ![id] = c] ELSE ic

\* res.status(s) at the end of a handler that holds no connection
Respond(r, s) ==
    /\ status' = Set(status, r, s)
    /\ pc' = Set(pc, r, "done")

\* POST /api/checks/split: the lines are moved one after the other
ChecksSplit_Receive(r) ==
    /\ pc[r] = "idle"
    /\ op' = Set(op, r, "checks_split")
    /\ \E l \in SplitLists : body' = Set(body, r, [check_id |-> 1, item_ids |-> l])
    /\ pc' = Set(pc, r, "insert_check")
    /\ UNCHANGED <<uid, authorization, result, storevars, params_id, client, k, order, found, status, err, unhandled>>
    /\ UNCHANGED <<txvars, checks, item_check, nextCheckId, newCheckId, inflight,
                   cpayments>>

ChecksSplit_InsertCheck(r) ==
    /\ pc[r] = "insert_check" /\ op[r] = "checks_split"
    /\ \/ /\ checks' = (nextCheckId :> [status |-> "Open", tip_amount |-> 0, closed_at |-> 0])
                       @@ checks
          /\ newCheckId' = Set(newCheckId, r, nextCheckId)
          /\ nextCheckId' = nextCheckId + 1
          /\ IF Len(body[r].item_ids) = 0
             THEN Respond(r, 200) /\ UNCHANGED k
             ELSE /\ pc' = Set(pc, r, "update_item")
                  /\ k' = Set(k, r, 1)
                  /\ UNCHANGED status
          /\ UNCHANGED err
       \/ /\ Respond(r, 500)
          /\ err' = Set(err, r, "driver")
          /\ UNCHANGED <<checks, newCheckId, nextCheckId, k>>
    /\ UNCHANGED <<op, uid, authorization, result, storevars, params_id, body, client, order, found, unhandled>>
    /\ UNCHANGED <<txvars, item_check, inflight, cpayments>>

ChecksSplit_UpdateItem(r) ==
    /\ pc[r] = "update_item" /\ op[r] = "checks_split"
    /\ \/ /\ item_check' = MoveLine(item_check, body[r].item_ids[k[r]], newCheckId[r])
          /\ k' = Set(k, r, k[r] + 1)
          /\ IF k[r] < Len(body[r].item_ids)
             THEN UNCHANGED <<pc, status>>
             ELSE Respond(r, 200)
          /\ UNCHANGED err
       \/ /\ Respond(r, 500)
          /\ err' = Set(err, r, "driver")
          /\ UNCHANGED <<item_check, k>>
    /\ UNCHANGED <<op, uid, authorization, result, storevars, params_id, body, client, order, found, unhandled>>
    /\ UNCHANGED <<txvars, checks, nextCheckId, newCheckId, inflight, cpayments>>

\* POST /api/order/split: Promise.all over one UPDATE per line, all issued at once
OrderSplit_Receive(r) ==
    /\ pc[r] = "idle"
    /\ op' = Set(op, r, "order_split")
    /\ \E l \in SplitLists : body' = Set(body, r, [check_id |-> 1, item_ids |-> l])
    /\ pc' = Set(pc, r, "insert_check")
    /\ UNCHANGED <<uid, authorization, result, storevars, params_id, client, k, order, found, status, err, unhandled>>
    /\ UNCHANGED <<txvars, checks, item_check, nextCheckId, newCheckId, inflight,
                   cpayments>>

OrderSplit_InsertCheck(r) ==
    /\ pc[r] = "insert_check" /\ op[r] = "order_split"
    /\ \/ /\ checks' = (nextCheckId :> [status |-> DefaultCheckStatus, tip_amount |-> 0,
                                     closed_at |-> 0]) @@ checks
          /\ newCheckId' = Set(newCheckId, r, nextCheckId)
          /\ nextCheckId' = nextCheckId + 1
          /\ inflight' = Set(inflight, r,
                             { body[r].item_ids[i] : i \in 1..Len(body[r].item_ids) })
          /\ IF Len(body[r].item_ids) = 0
             THEN Respond(r, 200)
             ELSE /\ pc' = Set(pc, r, "await_all")
                  /\ UNCHANGED status
          /\ UNCHANGED err
       \/ /\ Respond(r, 500)
          /\ err' = Set(err, r, "driver")
          /\ UNCHANGED <<checks, newCheckId, nextCheckId, inflight>>
    /\ UNCHANGED <<op, uid, authorization, result, storevars, params_id, body, client, k, order, found, unhandled>>
    /\ UNCHANGED <<txvars, item_check, cpayments>>

\* one of the UPDATEs in flight completes; the first rejection answers 500 while
\* the others go on, the last fulfilment answers 200
OrderSplit_UpdateItem(r) ==
    /\ pc[r] = "await_all" /\ op[r] = "order_split"
    /\ \E id \in inflight[r] :
         LET rest == inflight[r] \ {id}
         IN /\ inflight' = Set(inflight, r, rest)
            /\ pc' = Set(pc, r, IF rest = {} THEN "done" ELSE "await_all")
            /\ \/ /\ item_check' = MoveLine(item_check, id, newCheckId[r])
                  /\ status' = Set(status, r, IF status[r] = 0 /\ rest = {}
                                              THEN 200 ELSE status[r])
                  /\ UNCHANGED err
               \/ /\ status' = Set(status, r, IF status[r] = 0 THEN 500 ELSE status[r])
                  /\ err' = Set(err, r, "driver")
                  /\ UNCHANGED item_check
    /\ UNCHANGED <<op, uid, authorization, result, storevars, params_id, body, client, k, order, found, unhandled>>
    /\ UNCHANGED <<txvars, checks, nextCheckId, newCheckId, cpayments>>

\* the UPDATE without its AND status = 'Closed' condition
SetStatus_Unguarded(ch, c, to, onlyClosed, set) ==
    IF c \in DOMAIN ch
    THEN [ch EXCEPT ![c] = [col \in DOMAIN ch[c] |->
                              IF col = "status" THEN to
                              ELSE IF col \in DOMAIN set THEN set[col]
                              ELSE ch[c][col]]]
    ELSE ch

\* UPDATE checks SET status = to [, tip_amount = $1] [, closed_at = NOW()]
\* WHERE id = c [AND status = 'Closed']: set holds the other columns written
SetStatus(ch, c, to, onlyClosed, set) ==
    IF c \in DOMAIN ch /\ (~onlyClosed \/ ch[c].status = "Closed")
    THEN [ch EXCEPT ![c] = [col \in DOMAIN ch[c] |->
                              IF col = "status" THEN to
                              ELSE IF col \in DOMAIN set THEN set[col]
                              ELSE ch[c][col]]]
    ELSE ch

\* the shape shared by the payment routes: [INSERT INTO payments;] UPDATE checks
Pay_Receive(r, route, inserts) ==
    /\ pc[r] = "idle"
    /\ op' = Set(op, r, route)
    /\ \E c \in CheckIds : body' = Set(body, r, [check_id |-> c, item_ids |-> << >>,
                                                    tip_amount |-> 2])
    /\ pc' = Set(pc, r, IF inserts THEN "insert_payment" ELSE "update_check")
    /\ UNCHANGED <<uid, authorization, result, storevars, params_id, client, k, order, found, status, err, unhandled>>
    /\ UNCHANGED <<txvars, checkvars>>

Pay_Insert(r, route, method) ==
    /\ pc[r] = "insert_payment" /\ op[r] = route
    /\ \/ /\ cpayments' = cpayments \cup { <<body[r].check_id, method>> }
          /\ pc' = Set(pc, r, "update_check")
          /\ UNCHANGED <<status, err>>
       \/ /\ Respond(r, 500)
          /\ err' = Set(err, r, "driver")
          /\ UNCHANGED cpayments
    /\ UNCHANGED <<op, uid, authorization, result, storevars, params_id, body, client, k, order, found, unhandled>>
    /\ UNCHANGED <<txvars, checks, item_check, nextCheckId, newCheckId, inflight>>

\* cols: the columns written beside status; NOW() is the time of this statement,
\* told apart from every other by the request that ran it
Pay_Update(r, route, to, onlyClosed, cols) ==
    /\ pc[r] = "update_check" /\ op[r] = route
    /\ \/ /\ checks' = SetStatus(checks, body[r].check_id, to, onlyClosed,
                                [col \in cols |-> IF col = "closed_at" THEN r
                                                  ELSE body[r].tip_amount])
          /\ Respond(r, 200)
          /\ UNCHANGED err
       \/ /\ Respond(r, 500)
          /\ err' = Set(err, r, "driver")
          /\ UNCHANGED checks
    /\ UNCHANGED <<op, uid, authorization, result, storevars, params_id, body, client, k, order, found, unhandled>>
    /\ UNCHANGED <<txvars, item_check, nextCheckId, newCheckId, inflight, cpayments>>

\* POST /api/order/pay
OrderPay(r) ==
    \/ Pay_Receive(r, "order_pay", TRUE)
    \/ Pay_Insert(r, "order_pay", "body.payment_method")
    \/ Pay_Update(r, "order_pay", "Paid", FALSE, {})

\* POST /api/payment/submit
PaymentSubmit(r) ==
    \/ Pay_Receive(r, "payment_submit", TRUE)
    \/ Pay_Insert(r, "payment_submit", "body.payment_type")
    \/ Pay_Update(r, "payment_submit", "Closed", FALSE, {"closed_at", "tip_amount"})

\* POST /api/payment/card/manual
CardManual(r) ==
    \/ Pay_Receive(r, "card_manual", TRUE)
    \/ Pay_Insert(r, "card_manual", "Card (Manual)")
    \/ Pay_Update(r, "card_manual", "Closed", FALSE, {"closed_at", "tip_amount"})

\* POST /api/payment/card/auto-detect
CardAutoDetect(r) ==
    \/ Pay_Receive(r, "card_auto", TRUE)
    \/ Pay_Insert(r, "card_auto", "Card (Auto)")
    \/ Pay_Update(r, "card_auto", "Closed", FALSE, {"closed_at", "tip_amount"})

\* POST /api/payments/cash
PaymentsCash(r) ==
    \/ Pay_Receive(r, "payments_cash", FALSE)
    \/ Pay_Update(r, "payments_cash", "Closed", FALSE, {})

\* POST /api/checks/close
ChecksClose(r) ==
    \/ Pay_Receive(r, "checks_close", FALSE)
    \/ Pay_Update(r, "checks_close", "Paid", TRUE, {"tip_amount", "closed_at"})

\* POST /api/checks/pay-cash
ChecksPayCash(r) ==
    \/ Pay_Receive(r, "checks_pay_cash", FALSE)
    \/ Pay_Update(r, "checks_pay_cash", "Paid", TRUE, {"closed_at"})

\* PUT /api/payments/tip/:check_id
PaymentsTip(r) ==
    \/ Pay_Receive(r, "payments_tip", FALSE)
    \/ Pay_Update(r, "payments_tip", "Paid", FALSE, {})

ChecksSplit(r) ==
    ChecksSplit_Receive(r) \/ ChecksSplit_InsertCheck(r) \/ ChecksSplit_UpdateItem(r)

OrderSplit(r) ==
    OrderSplit_Receive(r) \/ OrderSplit_InsertCheck(r) \/ OrderSplit_UpdateItem(r)

\* --------------------------------------------------------- specification
\* ------------------------------------------------ verifyToken middleware
\* values of the Authorization header: absent, another scheme, a bearer scheme
\* with an empty token, with a token the identity verifier does not know, and
\* with a token it knows
Authorizations == {"none", "Basic good", "Bearer ", "Bearer bad", "Bearer good"}

\* req.headers.authorization?.split('Bearer ')[1]
IdToken(h) ==
    CASE h = "none" -> "undefined"
      [] h = "Basic good" -> "undefined"
      [] h = "Bearer " -> ""
      [] h = "Bearer bad" -> "bad"
      [] h = "Bearer good" -> "good"

\* !token
Falsy(t) == t \in {"undefined", ""}

\* the request reaches the middleware: without a token it is answered at once
VerifyToken_Receive(r) ==
    /\ pc[r] = "arrived"
    /\ \E h \in Authorizations :
         /\ authorization' = Set(authorization, r, h)
         /\ IF Falsy(IdToken(h))
            THEN Respond(r, 401)
            ELSE pc' = Set(pc, r, "verify_id_token") /\ UNCHANGED status
    /\ UNCHANGED <<op, uid, result, storevars, params_id, body, client, k, order, found,
                   err, unhandled>>
    /\ UNCHANGED <<txvars, checkvars>>

\* the catch clause without its response, falling through to next()
VerifyToken_VerifyIdToken_FallsThrough(r) ==
    /\ pc[r] = "verify_id_token"
    /\ \/ /\ IdToken(authorization[r]) = "good"
          /\ pc' = Set(pc, r, "idle")
          /\ UNCHANGED err
       \/ /\ pc' = Set(pc, r, "idle")
          /\ err' = Set(err, r, "auth")
    /\ UNCHANGED <<op, uid, authorization, result, storevars, params_id, body, client, k, order, found,
                   status, unhandled>>
    /\ UNCHANGED <<txvars, checkvars>>

\* await admin.auth().verifyIdToken(token): it resolves for a token the
\* verifier knows and next() hands the request to the route's handler, which
\* reads req.user; it rejects for any other token, or when the verifier
\* cannot be reached, and the catch clause answers 401
VerifyToken_VerifyIdToken(r) ==
    /\ pc[r] = "verify_id_token"
    /\ \/ /\ IdToken(authorization[r]) = "good"
          /\ pc' = Set(pc, r, "idle")
          /\ UNCHANGED <<status, err>>
       \/ /\ Respond(r, 401)
          /\ err' = Set(err, r, "auth")
    /\ UNCHANGED <<op, uid, authorization, result, storevars, params_id, body, client, k, order, found,
                   unhandled>>
    /\ UNCHANGED <<txvars, checkvars>>

VerifyToken(r) == VerifyToken_Receive(r) \/ VerifyToken_VerifyIdToken(r)

\* ------------------------------------------------------ PUT /inventory/:id
\* a JavaScript null or undefined
Null == [type |-> "null", v |-> 0]

\* req.body of PUT /inventory/:id
InventoryBodies ==
    [ name : {"", "rice"}, quantity : {Null, Num(0 - 1), Num(0), Num(7)},
      unit : {"", "kg"} ]

\* !name || quantity == null || !unit
InventoryBodyInvalid(b) == b.name = "" \/ b.quantity.type = "null" \/ b.unit = ""

InventoryPut_Receive(r) ==
    /\ pc[r] = "idle"
    /\ op' = Set(op, r, "inventory_put")
    /\ \E id \in {1, 3}, b \in InventoryBodies :
         /\ params_id' = Set(params_id, r, id)
         /\ body' = Set(body, r, b)
         /\ IF InventoryBodyInvalid(b)
            THEN Respond(r, 400)
            ELSE pc' = Set(pc, r, "update_inventory") /\ UNCHANGED status
    /\ UNCHANGED <<uid, authorization, result, client, k, order, found, err, unhandled>>
    /\ UNCHANGED <<txvars, storevars, checkvars>>

\* await pool.query('UPDATE inventory SET name = $1, quantity = $2, ... WHERE id = $5')
InventoryPut_Update(r) ==
    /\ pc[r] = "update_inventory" /\ op[r] = "inventory_put"
    /\ \/ /\ db' = UpdateInventory(db, params_id[r], body[r].quantity.v)
          /\ Respond(r, IF params_id[r] \in DOMAIN db.inventory THEN 200 ELSE 404)
          /\ UNCHANGED err
       \/ /\ Respond(r, 500)
          /\ err' = Set(err, r, "driver")
          /\ UNCHANGED db
    /\ UNCHANGED <<nextOrderId, tx, idle, op, uid, authorization, result, params_id, body,
                   client, k, order, found, unhandled>>
    /\ UNCHANGED <<storevars, checkvars>>

InventoryPut(r) == InventoryPut_Receive(r) \/ InventoryPut_Update(r)

\* ------------------------------- single-statement routes on the orders table
\* the values of the orders.status column the spec names
AllowedStatus == {"Pending", "Preparing", "Ready", "Served", "Completed"}
AllowedPriority == {"Low", "Medium", "High", "Urgent"}

\* req.body of the status, priority, assign and modifiers routes
StatusBodies == { [status |-> s] : s \in {"Preparing", "Completed", "Cancelled"} }
PriorityBodies == { [priority_level |-> p] : p \in {"High", "Top"} }
AssignBodies == { [chef_id |-> c] : c \in {Num(0), Num(5), Str} }
ModifiersBodies == { [modifiers |-> m] : m \in {"[\"spicy\"]"} }
NoFields == { [close_ui |-> TRUE] }

\* !chef_id || isNaN(chef_id)
ChefIdInvalid(b) == b.chef_id.type # "number" \/ b.chef_id.v = 0

\* rows matched by WHERE id = $1
RowCountById(d, id) == IF id \in DOMAIN d.orders THEN 1 ELSE 0

\* UPDATE orders SET <col> = <val> on the row with this id
SetOrderCol(cols, id, col, val) ==
    IF id \in DOMAIN cols THEN [cols EXCEPT ![id][col] = val] ELSE cols

\* the handler up to its only statement: the body is checked first
OrderCol_Receive(r, route, bodies, valid) ==
    /\ pc[r] = "idle"
    /\ op' = Set(op, r, route)
    /\ \E u \in Users, id \in OrderIds, b \in bodies :
         /\ uid' = Set(uid, r, u)
         /\ params_id' = Set(params_id, r, id)
         /\ body' = Set(body, r, b)
         /\ IF b \in valid
            THEN pc' = Set(pc, r, "update_order") /\ UNCHANGED status
            ELSE Respond(r, 400)
    /\ UNCHANGED <<authorization, result, client, k, order, found, err, unhandled>>
    /\ UNCHANGED <<txvars, storevars, checkvars>>

\* await pool.query('UPDATE orders SET <col> = $1 WHERE id = $2 [AND user_id = $3]'):
\* the value is the body's field, or fixed by the route; the routes of
\* orders.js match on the owner and answer 404 when no row matched
OrderCol_Update(r, route, col, field, fixed, owned) ==
    /\ pc[r] = "update_order" /\ op[r] = route
    /\ \/ LET n == IF owned THEN RowCount(db, params_id[r], uid[r])
                   ELSE RowCountById(db, params_id[r])
              val == IF field = "" THEN fixed ELSE body[r][field]
          IN /\ order_cols' = IF n = 0 THEN order_cols
                              ELSE SetOrderCol(order_cols, params_id[r], col, val)
             /\ Respond(r, IF owned /\ n = 0 THEN 404 ELSE 200)
             /\ UNCHANGED err
       \/ /\ Respond(r, 500)
          /\ err' = Set(err, r, "driver")
          /\ UNCHANGED order_cols
    /\ UNCHANGED <<op, uid, authorization, result, params_id, body, client, k, order,
                   found, unhandled>>
    /\ UNCHANGED <<txvars, checkvars, gift_cards, loyalty_program, tables, reservations>>

\* PUT /orders/:id/status (orders.js)
OrdersStatus(r) ==
    \/ OrderCol_Receive(r, "orders_status", StatusBodies,
                        { b \in StatusBodies : b.status \in AllowedStatus })
    \/ OrderCol_Update(r, "orders_status", "status", "status", "", TRUE)

\* PUT /api/orders/:id/status (server.js)
ApiOrdersStatus(r) ==
    \/ OrderCol_Receive(r, "api_orders_status", StatusBodies,
                        { b \in StatusBodies : b.status \in AllowedStatus })
    \/ OrderCol_Update(r, "api_orders_status", "status", "status", "", FALSE)

\* POST /api/orders/:id/send
OrdersSend(r) ==
    \/ OrderCol_Receive(r, "orders_send", NoFields, NoFields)
    \/ OrderCol_Update(r, "orders_send", "status", "", "Sent", FALSE)

\* POST /api/kds/order/:order_id/recall
KdsOrderRecall(r) ==
    \/ OrderCol_Receive(r, "kds_order_recall", NoFields, NoFields)
    \/ OrderCol_Update(r, "kds_order_recall", "status", "", "Recalled", FALSE)

\* PUT /orders/:id/priority
OrdersPriority(r) ==
    \/ OrderCol_Receive(r, "orders_priority", PriorityBodies,
                        { b \in PriorityBodies : b.priority_level \in AllowedPriority })
    \/ OrderCol_Update(r, "orders_priority", "priority_level", "priority_level", "", TRUE)

\* PUT /orders/:id/assign
OrdersAssign(r) ==
    \/ OrderCol_Receive(r, "orders_assign", AssignBodies,
                        { b \in AssignBodies : ~ChefIdInvalid(b) })
    \/ OrderCol_Update(r, "orders_assign", "assigned_chef_id", "chef_id", "", TRUE)

\* POST /orders/:id/modifiers
OrdersModifiers(r) ==
    \/ OrderCol_Receive(r, "orders_modifiers", ModifiersBodies, ModifiersBodies)
    \/ OrderCol_Update(r, "orders_modifiers", "modifiers", "modifiers", "", TRUE)

\* ------------------------------------------- POST /api/payments/gift-card
\* req.body: card G9 has no row
GiftCardBodies ==
    [ gift_card_number : {"G1", "G9"}, order_id : {1}, amount : {6, 10} ]

GiftCard_Receive(r) ==
    /\ pc[r] = "idle"
    /\ op' = Set(op, r, "gift_card")
    /\ \E b \in GiftCardBodies : body' = Set(body, r, b)
    /\ pc' = Set(pc, r, "gc_select")
    /\ UNCHANGED <<uid, authorization, result, params_id, client, k, order, found,
                   status, err, unhandled>>
    /\ UNCHANGED <<txvars, storevars, checkvars>>

\* await pool.query('SELECT balance FROM gift_cards WHERE card_number = $1'); the
\* two checks on the row that was read
GiftCard_Select(r) ==
    /\ pc[r] = "gc_select" /\ op[r] = "gift_card"
    /\ \/ /\ IF body[r].gift_card_number \notin DOMAIN gift_cards
             THEN Respond(r, 400) /\ UNCHANGED result
             ELSE LET balance == gift_cards[body[r].gift_card_number]
                  IN /\ result' = Set(result, r, balance)
                     /\ IF balance < body[r].amount
                        THEN Respond(r, 400)
                        ELSE pc' = Set(pc, r, "gc_update") /\ UNCHANGED status
          /\ UNCHANGED err
       \/ /\ Respond(r, 500)
          /\ err' = Set(err, r, "driver")
          /\ UNCHANGED result
    /\ UNCHANGED <<op, uid, authorization, params_id, body, client, k, order, found,
                   unhandled>>
    /\ UNCHANGED <<txvars, storevars, checkvars>>

\* UPDATE gift_cards SET balance = balance - $1 WHERE card_number = $2
DebitGiftCard(g, card, amount) ==
    IF card \in DOMAIN g THEN [g EXCEPT ![card] = @ - amount] ELSE g

GiftCard_Update(r) ==
    /\ pc[r] = "gc_update" /\ op[r] = "gift_card"
    /\ \/ /\ gift_cards' = DebitGiftCard(gift_cards, body[r].gift_card_number,
                                        body[r].amount)
          /\ pc' = Set(pc, r, "gc_insert")
          /\ UNCHANGED <<status, err>>
       \/ /\ Respond(r, 500)
          /\ err' = Set(err, r, "driver")
          /\ UNCHANGED gift_cards
    /\ UNCHANGED <<op, uid, authorization, result, params_id, body, client, k, order,
                   found, unhandled>>
    /\ UNCHANGED <<txvars, checkvars, order_cols, loyalty_program, tables, reservations>>

\* INSERT INTO payments (order_id, payment_method, amount) VALUES ($1, 'Gift Card', $3)
GiftCard_InsertPayment(r) ==
    /\ pc[r] = "gc_insert" /\ op[r] = "gift_card"
    /\ \/ /\ db' = InsertPayment(db, [order_id |-> body[r].order_id,
                                      amount |-> body[r].amount,
                                      method |-> "Gift Card"])
          /\ Respond(r, 200)
          /\ UNCHANGED err
       \/ /\ Respond(r, 500)
          /\ err' = Set(err, r, "driver")
          /\ UNCHANGED db
    /\ UNCHANGED <<nextOrderId, tx, idle, op, uid, authorization, result, params_id,
                   body, client, k, order, found, unhandled>>
    /\ UNCHANGED <<storevars, checkvars>>

GiftCard(r) ==
    \/ GiftCard_Receive(r) \/ GiftCard_Select(r) \/ GiftCard_Update(r)
    \/ GiftCard_InsertPayment(r)

\* --------------------------------------- POST /api/payments/loyalty-points
\* req.body: user u3 has no loyalty_program row
LoyaltyBodies ==
    [ user_id : {"u1", "u3"}, order_id : {1}, action : {"accrue", "redeem", "gift"},
      points : {3, 5} ]

LoyaltyPoints_Receive(r) ==
    /\ pc[r] = "idle"
    /\ op' = Set(op, r, "loyalty_points")
    /\ \E b \in LoyaltyBodies :
         /\ body' = Set(body, r, b)
         /\ IF b.action \in {"accrue", "redeem"}
            THEN pc' = Set(pc, r, "lp_select") /\ UNCHANGED status
            ELSE Respond(r, 400)
    /\ UNCHANGED <<uid, authorization, result, params_id, client, k, order, found, err,
                   unhandled>>
    /\ UNCHANGED <<txvars, storevars, checkvars>>

\* await pool.query('SELECT points FROM loyalty_program WHERE user_id = $1');
\* currentPoints is 0 when the user has no row
LoyaltyPoints_Select(r) ==
    /\ pc[r] = "lp_select" /\ op[r] = "loyalty_points"
    /\ \/ LET currentPoints == IF body[r].user_id \in DOMAIN loyalty_program
                               THEN loyalty_program[body[r].user_id] ELSE 0
          IN /\ result' = Set(result, r, currentPoints)
             /\ IF body[r].action = "redeem" /\ currentPoints < body[r].points
                THEN Respond(r, 400)
                ELSE pc' = Set(pc, r, "lp_insert") /\ UNCHANGED status
             /\ UNCHANGED err
       \/ /\ Respond(r, 500)
          /\ err' = Set(err, r, "driver")
          /\ UNCHANGED result
    /\ UNCHANGED <<op, uid, authorization, params_id, body, client, k, order, found,
                   unhandled>>
    /\ UNCHANGED <<txvars, storevars, checkvars>>

\* INSERT INTO payments (order_id, payment_method, amount) VALUES ($1, 'Loyalty Points', $3)
LoyaltyPoints_InsertPayment(r) ==
    /\ pc[r] = "lp_insert" /\ op[r] = "loyalty_points"
    /\ \/ /\ db' = InsertPayment(db, [order_id |-> body[r].order_id,
                                      amount |-> body[r].points,
                                      method |-> "Loyalty Points"])
          /\ pc' = Set(pc, r, "lp_update")
          /\ UNCHANGED <<status, err>>
       \/ /\ Respond(r, 500)
          /\ err' = Set(err, r, "driver")
          /\ UNCHANGED db
    /\ UNCHANGED <<nextOrderId, tx, idle, op, uid, authorization, result, params_id,
                   body, client, k, order, found, unhandled>>
    /\ UNCHANGED <<storevars, checkvars>>

\* action === 'accrue' ? currentPoints + points : currentPoints - points
NewPoints(currentPoints, action, points) ==
    IF action = "accrue" THEN currentPoints + points ELSE currentPoints - points

\* UPDATE loyalty_program SET points = $1 WHERE user_id = $2
SetPoints(l, user, p) == IF user \in DOMAIN l THEN [l EXCEPT ![user] = p] ELSE l

LoyaltyPoints_Update(r) ==
    /\ pc[r] = "lp_update" /\ op[r] = "loyalty_points"
    /\ \/ /\ loyalty_program' =
                SetPoints(loyalty_program, body[r].user_id,
                          NewPoints(result[r], body[r].action, body[r].points))
          /\ Respond(r, 200)
          /\ UNCHANGED err
       \/ /\ Respond(r, 500)
          /\ err' = Set(err, r, "driver")
          /\ UNCHANGED loyalty_program
    /\ UNCHANGED <<op, uid, authorization, result, params_id, body, client, k, order,
                   found, unhandled>>
    /\ UNCHANGED <<txvars, checkvars, order_cols, gift_cards, tables, reservations>>

LoyaltyPoints(r) ==
    \/ LoyaltyPoints_Receive(r) \/ LoyaltyPoints_Select(r)
    \/ LoyaltyPoints_InsertPayment(r) \/ LoyaltyPoints_Update(r)

\* ------------------------------------------------ POST /api/walk-in/reserve
\* UPDATE tables SET status = 'Occupied' WHERE id = $1
OccupyTable(t, id) == IF id \in DOMAIN t THEN [t EXCEPT ![id] = "Occupied"] ELSE t

WalkIn_Receive(r) ==
    /\ pc[r] = "idle"
    /\ op' = Set(op, r, "walk_in")
    /\ \E g \in {1, 2} : body' = Set(body, r, [guest_id |-> g, party_size |-> 2])
    /\ pc' = Set(pc, r, "wi_select")
    /\ UNCHANGED <<uid, authorization, result, params_id, client, k, order, found,
                   status, err, unhandled>>
    /\ UNCHANGED <<txvars, storevars, checkvars>>

\* await pool.query(`SELECT id FROM tables WHERE status = 'Available' LIMIT 1`):
\* any available table, or no row; assigned_table stays null without a row
WalkIn_Select(r) ==
    /\ pc[r] = "wi_select" /\ op[r] = "walk_in"
    /\ \/ /\ \E t \in DOMAIN tables :
               /\ tables[t] = "Available"
               /\ result' = Set(result, r, t)
               /\ pc' = Set(pc, r, "wi_update")
          /\ UNCHANGED <<status, err>>
       \/ /\ \A t \in DOMAIN tables : tables[t] # "Available"
          /\ pc' = Set(pc, r, "wi_insert")
          /\ UNCHANGED <<result, status, err>>
       \/ /\ Respond(r, 500)
          /\ err' = Set(err, r, "driver")
          /\ UNCHANGED result
    /\ UNCHANGED <<op, uid, authorization, params_id, body, client, k, order, found,
                   unhandled>>
    /\ UNCHANGED <<txvars, storevars, checkvars>>

WalkIn_Update(r) ==
    /\ pc[r] = "wi_update" /\ op[r] = "walk_in"
    /\ \/ /\ tables' = OccupyTable(tables, result[r])
          /\ pc' = Set(pc, r, "wi_insert")
          /\ UNCHANGED <<status, err>>
       \/ /\ Respond(r, 500)
          /\ err' = Set(err, r, "driver")
          /\ UNCHANGED tables
    /\ UNCHANGED <<op, uid, authorization, result, params_id, body, client, k, order,
                   found, unhandled>>
    /\ UNCHANGED <<txvars, checkvars, order_cols, gift_cards, loyalty_program,
                   reservations>>

\* INSERT INTO reservations (..., status, table_number, ...) with
\* assigned_table ? 'Ongoing' : 'Waitlist'
WalkIn_Insert(r) ==
    /\ pc[r] = "wi_insert" /\ op[r] = "walk_in"
    /\ \/ /\ reservations' =
                Append(reservations,
                       [guest_id |-> body[r].guest_id,
                        status |-> IF result[r] # NoRow THEN "Ongoing" ELSE "Waitlist",
                        table_number |-> result[r]])
          /\ Respond(r, 201)
          /\ UNCHANGED err
       \/ /\ Respond(r, 500)
          /\ err' = Set(err, r, "driver")
          /\ UNCHANGED reservations
    /\ UNCHANGED <<op, uid, authorization, result, params_id, body, client, k, order,
                   found, unhandled>>
    /\ UNCHANGED <<txvars, checkvars, order_cols, gift_cards, loyalty_program, tables>>

WalkIn(r) ==
    \/ WalkIn_Receive(r) \/ WalkIn_Select(r) \/ WalkIn_Update(r) \/ WalkIn_Insert(r)

\* ------------------------------------------------------ DELETE /orders/:id
\* DELETE FROM orders WHERE id = $1: the row goes, and with it (ON DELETE
\* CASCADE, "cascades to items/payments") its lines and its payments
DeleteOrder(d, id) ==
    [d EXCEPT !.orders = [o \in DOMAIN @ \ {id} |-> @[o]],
              !.order_items = [o \in DOMAIN @ \ {id} |-> @[o]],
              !.order_items_xmin = [o \in DOMAIN @ \ {id} |-> @[o]],
              !.payments = SelectSeq(@, LAMBDA p : p.order_id # id)]

OrdersDelete_Receive(r) ==
    /\ pc[r] = "idle"
    /\ op' = Set(op, r, "orders_delete")
    /\ \E u \in Users, id \in OrderIds :
         /\ uid' = Set(uid, r, u)
         /\ params_id' = Set(params_id, r, id)
    /\ pc' = Set(pc, r, "delete_order")
    /\ UNCHANGED <<authorization, result, body, client, k, order, found, status, err,
                   unhandled>>
    /\ UNCHANGED <<txvars, storevars, checkvars>>

\* the DELETE matching any owner's order
OrdersDelete_Delete_AnyOwner(r) ==
    /\ pc[r] = "delete_order" /\ op[r] = "orders_delete"
    /\ \/ LET n == RowCountById(db, params_id[r])
          IN /\ db' = IF n = 0 THEN db ELSE DeleteOrder(db, params_id[r])
             /\ order_cols' = IF n = 0 THEN order_cols
                              ELSE [o \in DOMAIN order_cols \ {params_id[r]} |->
                                      order_cols[o]]
             /\ Respond(r, IF n = 0 THEN 404 ELSE 200)
             /\ UNCHANGED err
       \/ /\ Respond(r, 500)
          /\ err' = Set(err, r, "driver")
          /\ UNCHANGED <<db, order_cols>>
    /\ UNCHANGED <<op, uid, authorization, result, params_id, body, client, k, order,
                   found, unhandled>>
    /\ UNCHANGED <<nextOrderId, tx, idle, checkvars, gift_cards, loyalty_program,
                   tables, reservations>>

\* await pool.query('DELETE FROM orders WHERE id = $1 AND user_id = $2 RETURNING *'):
\* auto-committed; rowCount 0 answers 404
OrdersDelete_Delete(r) ==
    /\ pc[r] = "delete_order" /\ op[r] = "orders_delete"
    /\ \/ LET n == RowCount(db, params_id[r], uid[r])
          IN /\ db' = IF n = 0 THEN db ELSE DeleteOrder(db, params_id[r])
             /\ order_cols' = IF n = 0 THEN order_cols
                              ELSE [o \in DOMAIN order_cols \ {params_id[r]} |->
                                      order_cols[o]]
             /\ Respond(r, IF n = 0 THEN 404 ELSE 200)
             /\ UNCHANGED err
       \/ /\ Respond(r, 500)
          /\ err' = Set(err, r, "driver")
          /\ UNCHANGED <<db, order_cols>>
    /\ UNCHANGED <<op, uid, authorization, result, params_id, body, client, k, order,
                   found, unhandled>>
    /\ UNCHANGED <<nextOrderId, tx, idle, checkvars, gift_cards, loyalty_program,
                   tables, reservations>>

OrdersDelete(r) == OrdersDelete_Receive(r) \/ OrdersDelete_Delete(r)

\* ------------------------------------------------------------------ specs
PlaceOrder(r) ==
    \/ PlaceOrder_Receive(r) \/ PlaceOrder_Begin(r) \/ PlaceOrder_InsertOrder(r)
    \/ PlaceOrder_InsertItem(r) \/ PlaceOrder_InsertPayment(r)
    \/ PlaceOrder_Commit(r) \/ PlaceOrder_Rollback(r)

ReplaceOrder(r) ==
    \/ ReplaceOrder_Receive(r) \/ ReplaceOrder_Begin(r) \/ ReplaceOrder_Select(r)
    \/ ReplaceOrder_RollbackNotFound(r) \/ ReplaceOrder_Delete(r)
    \/ ReplaceOrder_InsertItem(r) \/ ReplaceOrder_Update(r)
    \/ ReplaceOrder_Commit(r) \/ ReplaceOrder_Rollback(r)

BulkUpdate(r) ==
    \/ BulkUpdate_Receive(r) \/ BulkUpdate_Begin(r) \/ BulkUpdate_Update(r)
    \/ BulkUpdate_RollbackInvalid(r) \/ BulkUpdate_Commit(r) \/ BulkUpdate_Rollback(r)

\* the three transactional routes, requests of any of them running together
Next ==
    \E r \in Requests :
        \/ PoolConnect(r)
        \/ PlaceOrder(r)
        \/ ReplaceOrder(r)
        \/ BulkUpdate(r)

Spec == Init /\ [][Next]_vars

\* the order routes alone
NextOrders ==
    \E r \in Requests :
        \/ PoolConnect(r)
        \/ PlaceOrder(r)
        \/ ReplaceOrder(r)

SpecOrders == Init /\ [][NextOrders]_vars

\* the inventory route alone
NextInventory ==
    \E r \in Requests :
        \/ PoolConnect(r)
        \/ BulkUpdate(r)

SpecInventory == Init /\ [][NextInventory]_vars

\* the check and payment routes
NextChecks ==
    \E r \in Requests :
        \/ ChecksSplit(r)
        \/ OrderSplit(r)
        \/ OrderPay(r)
        \/ PaymentSubmit(r)
        \/ CardManual(r)
        \/ CardAutoDetect(r)
        \/ PaymentsCash(r)
        \/ ChecksClose(r)
        \/ ChecksPayCash(r)
        \/ PaymentsTip(r)

SpecChecks == Init /\ [][NextChecks]_vars


\* requests that have not passed verifyToken yet
InitAuth ==
    /\ db = InitDb
    /\ nextOrderId = 2
    /\ tx = [c \in Conns |-> NoTx]
    /\ idle = Conns
    /\ pc = [r \in Requests |-> "arrived"]
    /\ op = [r \in Requests |-> "none"]
    /\ uid = [r \in Requests |-> "u1"]
    /\ authorization = [r \in Requests |-> "none"]
    /\ params_id = [r \in Requests |-> 0]
    /\ body = [r \in Requests |-> NoBody]
    /\ client = [r \in Requests |-> NoClient]
    /\ k = [r \in Requests |-> 0]
    /\ order = [r \in Requests |-> 0]
    /\ found = [r \in Requests |-> FALSE]
    /\ status = [r \in Requests |-> 0]
    /\ err = [r \in Requests |-> "none"]
    /\ unhandled = [r \in Requests |-> FALSE]
    /\ checks = InitChecks
    /\ item_check = InitItemCheck
    /\ nextCheckId = 2
    /\ newCheckId = [r \in Requests |-> 0]
    /\ inflight = [r \in Requests |-> {}]
    /\ cpayments = {}
    /\ result = [r \in Requests |-> NoRow]
    /\ order_cols = InitOrderCols
    /\ gift_cards = InitGiftCards
    /\ loyalty_program = InitLoyaltyProgram
    /\ tables = InitTables
    /\ reservations = << >>

\* POST /orders behind verifyToken
NextAuth ==
    \E r \in Requests :
        \/ VerifyToken(r)
        \/ PoolConnect(r)
        \/ PlaceOrder(r)

SpecAuth == InitAuth /\ [][NextAuth]_vars


\* the inventory routes: bulk update and single-item update
NextStock ==
    \E r \in Requests :
        \/ PoolConnect(r)
        \/ BulkUpdate(r)
        \/ InventoryPut(r)

SpecStock == Init /\ [][NextStock]_vars

\* the routes that write orders.status
NextOrderStatus ==
    \E r \in Requests :
        \/ OrdersStatus(r)
        \/ ApiOrdersStatus(r)
        \/ OrdersSend(r)
        \/ KdsOrderRecall(r)

SpecOrderStatus == Init /\ [][NextOrderStatus]_vars

\* the gift card payment route
NextGiftCard == \E r \in Requests : GiftCard(r)

SpecGiftCard == Init /\ [][NextGiftCard]_vars

\* the loyalty points route
NextLoyalty == \E r \in Requests : LoyaltyPoints(r)

SpecLoyalty == Init /\ [][NextLoyalty]_vars

\* the walk-in route
NextWalkIn == \E r \in Requests : WalkIn(r)

SpecWalkIn == Init /\ [][NextWalkIn]_vars

\* the owner-guarded order routes of orders.js
NextIsolation ==
    \E r \in Requests :
        \/ PoolConnect(r)
        \/ ReplaceOrder(r)
        \/ OrdersDelete(r)
        \/ OrdersStatus(r)
        \/ OrdersAssign(r)
        \/ OrdersPriority(r)
        \/ OrdersModifiers(r)

SpecIsolation == Init /\ [][NextIsolation]_vars

\* ================================================================ claims
\* rows of the payments table that reference order id
PaymentsOf(d, id) == { i \in 1..Len(d.payments) : d.payments[i].order_id = id }

\* the request takes a step
Steps(r) == pc'[r] # pc[r]

\* C1: place order is atomic.  While a place-order request has not answered
\* 201 -- in flight, or ended after a failing order insert, line insert,
\* payment insert or COMMIT -- the store holds no order row, no order line
\* and no payment row of the order id that request created.
C1_PlaceOrderAtomic ==
    \A r \in Requests :
        (op[r] = "place" /\ status[r] # 201 /\ order[r] # 0) =>
            /\ order[r] \notin DOMAIN db.orders
            /\ order[r] \notin DOMAIN db.order_items
            /\ PaymentsOf(db, order[r]) = {}

\* a place order with two lines and a payment ended 500 after the insert of
\* its second line was rejected
C1_Witness ==
    \E r \in Requests :
        /\ op[r] = "place" /\ pc[r] = "done" /\ status[r] = 500
        /\ err[r] = "driver" /\ order[r] # 0
        /\ Len(body[r].items) = 2 /\ k[r] = 2 /\ body[r].payment.present

\* C2: in the store every order's total_price equals the sum of quantity x
\* price over its lines (the orders of the initial store satisfy it, and only
\* place order and replace order contents write either side).
C2_TotalIsSumOfLines ==
    \A id \in DOMAIN db.orders :
        db.orders[id].total_price = SumLines(db.order_items[id])

\* the order exists and belongs to the subject
Owned(d, id, u) == id \in DOMAIN d.orders /\ d.orders[id].user_id = u

\* C8: replace order contents on an order that does not exist or belongs to
\* another subject never reaches DELETE, INSERT, UPDATE or COMMIT, changes no
\* table, and -- unless the driver rejected BEGIN, the SELECT or the ROLLBACK
\* -- ends with the response 404 and the transaction rolled back.
C8_ReplaceNotFound ==
    [][ \A r \in Requests :
          (op[r] = "replace" /\ Steps(r) /\ ~Owned(db, params_id[r], uid[r])) =>
              /\ db' = db
              /\ pc'[r] \notin {"delete", "insert_item", "update", "commit"}
              /\ (pc'[r] = "done" /\ err'[r] = "none" /\ ~unhandled'[r]) =>
                    /\ status'[r] = 404
                    /\ tx'[client[r]] = NoTx ]_vars

\* subject u2 asked to replace the lines of order 1, which belongs to u1, and
\* got 404
C8_Witness ==
    \E r \in Requests :
        /\ op[r] = "replace" /\ pc[r] = "done" /\ status[r] = 404
        /\ uid[r] = "u2" /\ params_id[r] = 1 /\ Len(body[r].items) > 0
        /\ db = InitDb

\* C9: the step in which a place order answers 201 adds exactly one order row,
\* owned by the subject, with one line per element of the request's lines in
\* order, and one payment row iff the request carries a payment, all under the
\* new order id; no other row changes; and a place order changes the store in
\* no other step.
C9_PlaceOrderCreates ==
    [][ \A r \in Requests :
          (op[r] = "place" /\ Steps(r)) =>
              IF status'[r] = 201
              THEN LET id == order[r]
                       b == body[r]
                   IN /\ id \notin DOMAIN db.orders
                      /\ DOMAIN db'.orders = DOMAIN db.orders \cup {id}
                      /\ \A o \in DOMAIN db.orders :
                            /\ db'.orders[o] = db.orders[o]
                            /\ db'.order_items[o] = db.order_items[o]
                      /\ db'.orders[id].user_id = uid[r]
                      /\ db'.orders[id].total_price = b.total_price
                      /\ db'.order_items[id] = b.items
                      /\ db'.inventory = db.inventory
                      /\ IF b.payment.present
                         THEN db'.payments =
                                Append(db.payments, [order_id |-> id,
                                                     amount |-> b.payment.amount,
                                                     method |-> b.payment.method])
                         ELSE db'.payments = db.payments
              ELSE db' = db ]_vars

\* a place order with two lines and a payment answered 201
C9_Witness ==
    \E r \in Requests :
        /\ op[r] = "place" /\ pc[r] = "done" /\ status[r] = 201
        /\ Len(body[r].items) = 2 /\ body[r].payment.present
        /\ uid[r] = "u2"
        /\ Cardinality(PaymentsOf(db, order[r])) = 1


RECURSIVE ApplyItems(_, _)
\* the inventory after every {id, quantity} pair of a list has been applied
ApplyItems(inv, items) ==
    IF items = << >> THEN inv
    ELSE LET it == Head(items)
             next == IF it.id.v \in DOMAIN inv
                     THEN [inv EXCEPT ![it.id.v] = it.quantity.v]
                     ELSE inv
         IN ApplyItems(next, Tail(items))

AllValid(items) == \A i \in 1..Len(items) : ~ItemInvalid(items[i])
IdsOf(items) == { items[i].id.v : i \in 1..Len(items) }

\* C4: bulk inventory update is all-or-nothing.  The inventory changes only in
\* the COMMIT step of a bulk update that answers 200, every item of that
\* request is well typed, and the new inventory is the old one with every
\* listed pair applied; so a request with a malformed item at any position,
\* and a request that fails, change no inventory row.
C4_BulkAllOrNothing ==
    [][ db'.inventory # db.inventory =>
          \E r \in Requests :
              /\ op[r] = "bulk" /\ pc[r] = "commit" /\ pc'[r] = "done"
              /\ status'[r] = 200
              /\ AllValid(body[r].items)
              /\ db'.inventory = ApplyItems(db.inventory, body[r].items) ]_vars

\* a bulk update whose second item is malformed, after a valid first item was
\* written, answered 400 and the inventory is what it was
C4_Witness ==
    \E r \in Requests :
        /\ op[r] = "bulk" /\ pc[r] = "done" /\ status[r] = 400
        /\ Len(body[r].items) = 2
        /\ ~ItemInvalid(body[r].items[1]) /\ ItemInvalid(body[r].items[2])
        /\ body[r].items[1].id.v \in DOMAIN db.inventory
        /\ k[r] = 2
        /\ db.inventory = InitDb.inventory

\* a bulk update that ran to its end without a rejection by pool or driver
RanClean(r) ==
    /\ op[r] = "bulk" /\ pc[r] = "done" /\ err[r] = "none" /\ ~unhandled[r]
    /\ body[r].isArray /\ Len(body[r].items) > 0 /\ AllValid(body[r].items)

\* C5: two bulk updates on disjoint id sets, whatever the interleaving of their
\* statements, both answer 200 when no statement is rejected by the driver,
\* and then each item named by one of them holds the quantity that request
\* asked for and every other item holds its initial quantity (no third
\* request having committed).
C5_DisjointBulkUpdates ==
    \A r1, r2 \in Requests :
        ( /\ r1 # r2 /\ RanClean(r1) /\ RanClean(r2)
          /\ IdsOf(body[r1].items) \cap IdsOf(body[r2].items) = {}
          /\ \A r3 \in Requests \ {r1, r2} : status[r3] # 200 ) =>
            /\ status[r1] = 200 /\ status[r2] = 200
            /\ \A id \in DOMAIN db.inventory :
                 db.inventory[id] =
                    IF id \in IdsOf(body[r1].items)
                    THEN ApplyItems(InitDb.inventory, body[r1].items)[id]
                    ELSE IF id \in IdsOf(body[r2].items)
                    THEN ApplyItems(InitDb.inventory, body[r2].items)[id]
                    ELSE InitDb.inventory[id]

\* two bulk updates on disjoint ids hold open transactions at the same time,
\* each with its UPDATE pending
C5_Witness ==
    \E r1, r2 \in Requests :
        /\ r1 # r2 /\ op[r1] = "bulk" /\ op[r2] = "bulk"
        /\ pc[r1] = "commit" /\ pc[r2] = "commit"
        /\ IdsOf(body[r1].items) = {1} /\ IdsOf(body[r2].items) = {2}
        /\ Len(tx[client[r1]].log) > 0 /\ Len(tx[client[r2]].log) > 0

\* requests that hold a connection: past pool.connect(), before release
Holding == { r \in Requests : pc[r] \notin {"idle", "connect", "done"} }

\* C6: the connections checked out of the pool are exactly those of the
\* requests still inside their handler; a request that has ended -- with
\* success, 400, 404, 500, or a rejected ROLLBACK -- holds none, so when all
\* requests have ended every connection is back in the pool.
C6_ConnectionsReleased ==
    /\ Conns \ idle = { client[r] : r \in Holding }
    /\ \A r1, r2 \in Holding : client[r1] = client[r2] => r1 = r2

\* a request ended through a rejected ROLLBACK and another through the 404
\* path, and the pool is full again
C6_Witness ==
    \E r1, r2 \in Requests :
        /\ pc[r1] = "done" /\ unhandled[r1] /\ client[r1] # NoClient
        /\ pc[r2] = "done" /\ status[r2] = 404
        /\ idle = Conns

\* C7: every request that has ended has sent a response.
C7_AlwaysResponds ==
    \A r \in Requests : pc[r] = "done" => status[r] # 0


\* the lines a check holds
LinesOf(c) == { id \in DOMAIN item_check : item_check[id] = c }
SplitOps == {"checks_split", "order_split"}

\* C3: every line belongs to exactly one check, and a split that has ended
\* either answered 200 with exactly its lines L in the new check (when L are
\* lines with a row and no other request ran), or failed, and then the new
\* check holds no line and no new check is left behind.
C3_SplitAtomic ==
    /\ \A id \in DOMAIN item_check : item_check[id] \in DOMAIN checks
    /\ DOMAIN item_check = LineIds
    /\ \A r \in Requests :
         (op[r] \in SplitOps /\ pc[r] = "done") =>
            LET L == { body[r].item_ids[i] : i \in 1..Len(body[r].item_ids) }
            IN IF status[r] = 200
               THEN (L \subseteq LineIds /\ \A r2 \in Requests \ {r} : pc[r2] = "idle")
                       => (LinesOf(newCheckId[r]) = L /\ LinesOf(1) = LineIds \ L)
               ELSE /\ LinesOf(newCheckId[r]) = {}
                    /\ newCheckId[r] \notin DOMAIN checks

\* C10: a check's status moves only along Open -> Closed -> Paid: no step takes
\* a check from Open to Paid or from Closed back to Open, and a Paid check
\* keeps its status.
C10_StatusPath ==
    [][ \A c \in DOMAIN checks :
          /\ checks[c].status = "Open" => checks'[c].status \in {"Open", "Closed"}
          /\ checks[c].status = "Closed" => checks'[c].status \in {"Closed", "Paid"}
          /\ checks[c].status = "Paid" => checks'[c].status = "Paid" ]_vars

\* the request body fails validation: lines that are missing or not an array,
\* an empty inventory array, or an inventory item with a field that is not a number
Malformed(r) ==
    CASE op[r] \in {"place", "replace"} -> ~body[r].iterable
      [] op[r] = "bulk" ->
            \/ ~body[r].isArray
            \/ Len(body[r].items) = 0
            \/ \E i \in 1..Len(body[r].items) : ItemInvalid(body[r].items[i])
      [] OTHER -> FALSE

\* C11: a transactional operation that has answered, and whose statements the
\* driver did not reject, answered 200 or 201 on success, 400 when its body
\* fails validation, 404 when the order is not found or not owned, and 500
\* otherwise.
C11_StatusMapping ==
    \A r \in Requests :
        (pc[r] = "done" /\ status[r] # 0 /\ err[r] # "driver") =>
            /\ status[r] \in {200, 201, 400, 404, 500}
            /\ Malformed(r) => status[r] = 400
            /\ status[r] = 400 => Malformed(r)
            /\ status[r] = 404 =>
                  (op[r] = "replace" /\ ~Owned(db, params_id[r], uid[r]))

\* the request carries no bearer token, or the identity verifier rejected it
Unauthenticated(r) ==
    /\ pc[r] \notin {"arrived", "verify_id_token"}
    /\ IdToken(authorization[r]) # "good" \/ err[r] = "auth"

\* C12: a request with no bearer token, or whose token the identity verifier
\* rejects, is answered 401 by verifyToken and never enters the route's
\* handler: it stays without a route, a body and a connection, and no step of
\* the middleware touches the tables, the transactions or the pool.
C12_Unauthenticated ==
    [][ \A r \in Requests :
          /\ Unauthenticated(r)' =>
                /\ pc'[r] = "done" /\ status'[r] = 401
                /\ op'[r] = "none" /\ body'[r] = NoBody /\ client'[r] = NoClient
          /\ (Steps(r) /\ pc[r] \in {"arrived", "verify_id_token"}) =>
                UNCHANGED <<db, nextOrderId, tx, idle>> ]_vars

\* one request was answered 401 for a token the verifier rejected, while a
\* request with a good token placed an order
C12_Witness ==
    \E r1, r2 \in Requests :
        /\ pc[r1] = "done" /\ status[r1] = 401 /\ authorization[r1] = "Bearer bad"
        /\ err[r1] = "auth"
        /\ pc[r2] = "done" /\ status[r2] = 201

\* C13: the COMMIT of a replace order contents that answers 200 leaves the
\* order with exactly the lines of the request, in order, and leaves the lines
\* of every other order as they were.
C13_ReplaceSetsLines ==
    [][ \A r \in Requests :
          (op[r] = "replace" /\ pc[r] = "commit" /\ status'[r] = 200) =>
              /\ db'.order_items[params_id[r]] = body[r].items
              /\ DOMAIN db'.order_items = DOMAIN db.order_items
              /\ \A o \in DOMAIN db.order_items \ {params_id[r]} :
                    db'.order_items[o] = db.order_items[o] ]_vars

\* C14: a replace order contents that fails leaves the store as it was: every
\* step of the request that does not answer 200 -- the DELETE, the insert of a
\* line, the total update, a rejected COMMIT, the ROLLBACK -- changes no table,
\* so when the request has ended in failure the order has the lines and the
\* total_price it would have had without the request.
C14_FailedReplaceRestores ==
    [][ \A r \in Requests :
          (/\ op[r] = "replace"
           /\ pc'[r] # pc[r] \/ k'[r] # k[r]
           /\ status'[r] # 200) => db' = db ]_vars

\* a replace with two lines ended 500 after both lines were inserted: the total
\* update or the COMMIT was rejected
C14_Witness ==
    \E r \in Requests :
        /\ op[r] = "replace" /\ pc[r] = "done" /\ status[r] = 500
        /\ err[r] = "driver" /\ found[r]
        /\ Len(body[r].items) = 2 /\ k[r] = 3

\* C15: a bulk inventory update whose array holds an item that fails
\* validation never gets to issue an UPDATE: it is never suspended at an
\* UPDATE statement.
C15_ValidateAllBeforeWrite ==
    \A r \in Requests :
        (/\ op[r] = "bulk" /\ body[r].isArray
         /\ \E i \in 1..Len(body[r].items) : ItemInvalid(body[r].items[i])) =>
            pc[r] # "update"

\* C16: a request whose body is malformed is rejected in its first step: it
\* never waits for a connection, never holds one, and never reaches BEGIN, a
\* write or a ROLLBACK.
C16_MalformedRejectedFirst ==
    \A r \in Requests :
        Malformed(r) => (pc[r] = "done" /\ client[r] = NoClient)

\* C17: a step of a split leaves the status of every existing check as it
\* was, creates only checks whose status is Open, and moves a line only out of
\* a check whose status is Open.
C17_SplitOnlyOpen ==
    [][ \A r \in Requests :
          (/\ op[r] \in SplitOps
           /\ pc'[r] # pc[r] \/ k'[r] # k[r] \/ inflight'[r] # inflight[r]) =>
              /\ \A c \in DOMAIN checks : checks'[c] = checks[c]
              /\ \A c \in DOMAIN checks' \ DOMAIN checks : checks'[c].status = "Open"
              /\ \A id \in DOMAIN item_check :
                    item_check'[id] # item_check[id] =>
                        checks[item_check[id]].status = "Open" ]_vars

\* C18: at any time a request has at most one persistence statement issued and
\* not yet completed.
C18_OneStatementInFlight ==
    \A r \in Requests : Cardinality(inflight[r]) <= 1

\* suspended at await client.query('ROLLBACK')
RollbackPcs == {"rollback", "rollback_404", "rollback_400"}

\* C19: a request that gives its connection back without having answered 200
\* or 201 does so in the step that completes its ROLLBACK, and no connection
\* in the pool has a transaction that is still open.
C19_RollbackBeforeRelease ==
    [][ /\ \A c \in idle' : tx'[c].state # "open"
        /\ \A r \in Holding :
             (r \notin Holding' /\ status'[r] \notin {200, 201}) =>
                 /\ pc[r] \in RollbackPcs
                 /\ client[r] \in idle' ]_vars

\* one request rolled back after a rejected statement and answered 500,
\* another rolled back an invalid bulk update and answered 400, and both
\* connections are back in the pool
C19_Witness ==
    \E r1, r2 \in Requests :
        /\ pc[r1] = "done" /\ status[r1] = 500 /\ err[r1] = "driver"
        /\ client[r1] # NoClient
        /\ pc[r2] = "done" /\ status[r2] = 400 /\ client[r2] # NoClient
        /\ idle = Conns

\* the inventory ids a bulk update names that have no row
MissingIds(r) == IdsOf(body[r].items) \ DOMAIN db.inventory

\* C20: a bulk inventory update that names an inventory id with no row, and a
\* split that names an order-line id with no row, never answers 200.
C20_MissingRowAborts ==
    \A r \in Requests :
        /\ (op[r] = "bulk" /\ body[r].isArray /\ AllValid(body[r].items)
              /\ MissingIds(r) # {}) => status[r] # 200
        /\ (op[r] \in SplitOps
              /\ \E i \in 1..Len(body[r].item_ids) :
                    body[r].item_ids[i] \notin DOMAIN item_check) => status[r] # 200

\* C21: no inventory row holds a negative quantity.
C21_NoNegativeQuantity ==
    \A id \in DOMAIN db.inventory : db.inventory[id] >= 0

\* C22: the status of every order is one of Pending, Preparing, Ready, Served,
\* Completed.
C22_StatusInEnum ==
    \A id \in DOMAIN order_cols : order_cols[id].status \in AllowedStatus

\* the routes that run their statements in a transaction
TxOps == {"place", "replace", "bulk"}
Success == {200, 201}

\* C23: a transactional request gets its success response only in the step in
\* which COMMIT completes on its connection, committing its pending
\* statements; when COMMIT is rejected that step sends no success response,
\* and a request that ended after any rejected statement has none.
C23_SuccessAfterCommit ==
    [][ \A r \in Requests :
          op[r] \in TxOps =>
            /\ (status[r] \notin Success /\ status'[r] \in Success) =>
                  /\ pc[r] = "commit" /\ Alive(client[r])
                  /\ db' = TxCommitDb(client[r])
                  /\ tx'[client[r]].state = "none"
            /\ (pc[r] = "commit" /\ pc'[r] = "rollback") => status'[r] \notin Success
            /\ (pc'[r] = "done" /\ err'[r] # "none") => status'[r] \notin Success ]_vars

\* a place order without payment whose two lines were inserted and whose
\* COMMIT was rejected ended 500, and another place order answered 201
C23_Witness ==
    \E r1, r2 \in Requests :
        /\ op[r1] = "place" /\ pc[r1] = "done" /\ status[r1] = 500
        /\ err[r1] = "driver" /\ Len(body[r1].items) = 2 /\ k[r1] = 3
        /\ ~body[r1].payment.present
        /\ op[r2] = "place" /\ pc[r2] = "done" /\ status[r2] = 201

RECURSIVE SumOver(_, _)
\* the sum of f over the elements of the set S
SumOver(f, S) ==
    IF S = {} THEN 0
    ELSE LET x == CHOOSE y \in S : TRUE IN f[x] + SumOver(f, S \ {x})

\* the amounts of the gift card requests on this card answered 200
PaidByCard(card) ==
    SumOver([r \in Requests |-> body[r].amount],
            { r \in Requests : /\ op[r] = "gift_card" /\ status[r] = 200
                               /\ body[r].gift_card_number = card })

\* C24: no gift card balance is negative, and the amounts of the requests
\* answered 200 against a card add up to no more than its initial balance.
C24_GiftCardNotOverdrawn ==
    \A card \in DOMAIN gift_cards :
        /\ gift_cards[card] >= 0
        /\ PaidByCard(card) <= InitGiftCards[card]

\* the amounts of the 'Gift Card' rows of the payments table
GiftCardPayments ==
    SumOver([i \in 1..Len(db.payments) |-> db.payments[i].amount],
            { i \in 1..Len(db.payments) : db.payments[i].method = "Gift Card" })

\* C25: when every gift card request has ended, the amount taken off the
\* cards equals the amount of the 'Gift Card' payment rows: each request
\* debited its card if and only if it recorded its payment.
C25_DebitWithPayment ==
    (\A r \in Requests : pc[r] \in {"idle", "done"}) =>
        SumOver([c \in DOMAIN gift_cards |-> InitGiftCards[c] - gift_cards[c]],
                DOMAIN gift_cards) = GiftCardPayments

\* the points the loyalty requests of this user that were answered 200 add up
\* to: accrued points count up, redeemed points count down
NetPoints(user) ==
    SumOver([r \in Requests |-> NewPoints(0, body[r].action, body[r].points)],
            { r \in Requests : /\ op[r] = "loyalty_points" /\ status[r] = 200
                               /\ body[r].user_id = user })

\* C26: when the loyalty requests have ended, each answered 200 or rejected
\* with 400, the stored points of a user are the initial points plus the
\* points accrued minus the points redeemed by the requests answered 200.
C26_NoLostPoints ==
    (\A r \in Requests : pc[r] \in {"idle", "done"} /\ status[r] \in {0, 200, 400}) =>
        \A user \in DOMAIN loyalty_program :
            loyalty_program[user] = InitLoyaltyProgram[user] + NetPoints(user)

\* C27: no two reservations with status Ongoing carry the same table.
C27_OneWalkInPerTable ==
    \A i, j \in 1..Len(reservations) :
        (/\ i # j
         /\ reservations[i].status = "Ongoing"
         /\ reservations[j].status = "Ongoing") =>
            reservations[i].table_number # reservations[j].table_number

\* the request takes this step
Stepped(r) == pc'[r] # pc[r] \/ k'[r] # k[r]

\* the order, its lines and its columns are the same after the step
OrderUnchanged(id) ==
    /\ id \in DOMAIN db'.orders
    /\ db'.orders[id] = db.orders[id]
    /\ db'.order_items[id] = db.order_items[id]
    /\ id \in DOMAIN order_cols =>
         id \in DOMAIN order_cols' /\ order_cols'[id] = order_cols[id]

\* C28: a step of a request made by subject u leaves every order whose
\* user_id is not u, with its lines and its columns, as it was.
C28_SubjectsIsolated ==
    [][\A id \in DOMAIN db.orders :
          (\A r \in Requests : Stepped(r) => uid'[r] # db.orders[id].user_id)
              => OrderUnchanged(id)]_vars

\* a non-owner's delete was answered 404 beside an owner's successful write,
\* and the order is still there
C28_Witness ==
    \E r, q \in Requests :
        /\ op[r] = "orders_delete" /\ pc[r] = "done" /\ status[r] = 404
        /\ Owned(db, params_id[r], "u1") /\ uid[r] = "u2"
        /\ op[q] = "orders_status" /\ pc[q] = "done" /\ status[q] = 200
        /\ uid[q] = "u1" /\ params_id[q] = params_id[r]

\* C29: a connection enters the pool only in the step in which the request
\* holding it ends, a request that has ended takes no further step, and
\* every step of a request inside its handler runs on a connection that is
\* checked out: one release per acquired connection and no statement after it.
C29_ReleasedOnce ==
    [][ /\ \A c \in idle' \ idle :
             \E r \in Holding : client[r] = c /\ Stepped(r) /\ pc'[r] = "done"
        /\ \A r \in Requests :
             /\ (r \in Holding /\ Stepped(r)) => client[r] \notin idle
             /\ pc[r] = "done" => ~Stepped(r) /\ client'[r] = client[r] ]_vars

\* both early returns were taken -- order not found, invalid item -- and both
\* connections are back in the pool
C29_Witness ==
    \E r, q \in Requests :
        /\ op[r] = "replace" /\ pc[r] = "done" /\ status[r] = 404 /\ err[r] = "none"
        /\ op[q] = "bulk" /\ pc[q] = "done" /\ status[q] = 400 /\ err[q] = "none"
        /\ body[q].isArray /\ Len(body[q].items) > 0
        /\ idle = Conns

\* C30: the UPDATE of /api/checks/close and /api/checks/pay-cash adds and
\* removes no check, and changes no column of any check other than the one
\* named in the request, nor of that one unless its status is Closed.
C30_OnlyClosedChecksChange ==
    [][\A r \in Requests :
          (/\ op[r] \in {"checks_close", "checks_pay_cash"}
           /\ pc[r] = "update_check" /\ Stepped(r)) =>
              /\ DOMAIN checks' = DOMAIN checks
              /\ \A c \in DOMAIN checks :
                   (c # body[r].check_id \/ checks[c].status # "Closed") =>
                       checks'[c] = checks[c] ]_vars

\* /api/checks/close was answered 200 on a check that was not Closed, and the
\* check has no tip and no closing time
C30_Witness ==
    \E r \in Requests :
        /\ op[r] = "checks_close" /\ pc[r] = "done" /\ status[r] = 200
        /\ body[r].check_id \in DOMAIN checks
        /\ checks[body[r].check_id].status # "Paid"
        /\ checks[body[r].check_id].tip_amount = 0
        /\ checks[body[r].check_id].closed_at = 0

====
